---- MODULE Spec2Model ----
(***************************************************************************)
(* A model of the rv6 kernel core: the resource arena (ArrayArena over     *)
(* StaticRefCell, MruArena over an intrusive list), the process system     *)
(* (process table, wait-lock, fork / exit / wait / kill, scheduler), the   *)
(* pipe, the write-ahead log with crash and recovery, the spin and sleep   *)
(* locks, lock-protected cells, link / unlink, the block bitmap and the    *)
(* atomic RcCell.                                                          *)
(***************************************************************************)
EXTENDS Integers, Sequences, FiniteSets, TLC

(***************************************************************************)
(* Bounds of the model.                                                    *)
(***************************************************************************)
\* number of slots of the arena under test (const generic CAPACITY)
CAPACITY ==
  2
\* number of distinct logical keys clients ask for
NKeys ==
  3
\* number of client tasks of the arena
NTasks ==
  2
\* handles the clients hold at a time
MaxHeld ==
  3
\* slots of the process table (param.rs NPROC)
NPROC ==
  3
\* CPUs, each running scheduler() (param.rs NCPU)
NCPU ==
  2
\* pids handed out by allocpid
MaxPid ==
  4
\* exit statuses run from 0 to MaxStatus
MaxStatus ==
  1
\* tasks that use the pipe
NPipeTasks ==
  2
\* the ring of a pipe holds 2^LogPipeSize bytes (pipe.rs PIPESIZE is 2^9)
LogPipeSize ==
  1
\* bits kept of the u32 counters nread and nwrite
CounterBits ==
  2
\* longest buffer handed to read or write
MaxN ==
  3
\* bytes handed to write in all
MaxBytes ==
  5
\* tasks in file-system calls
NLogTasks ==
  3
\* distinct disk blocks the transactions write
NBlocks ==
  5
\* blocks one transaction may write (param.rs MAXOPBLOCKS)
MAXOPBLOCKS ==
  2
\* data blocks of the on-disk log (param.rs LOGSIZE)
LOGSIZE ==
  4
\* tasks that run transactions while the machine may crash
NCrashTasks ==
  2
\* disk blocks written while the machine may crash
NCrashBlocks ==
  3
\* a block holds a value from 0 to MaxData
MaxData ==
  1
\* spinlocks the CPUs acquire
NSpinlocks ==
  2
\* tasks that contend for sleep locks
NSleepTasks ==
  3
\* sleep locks (buffers, inodes)
NSleepLocks ==
  2
\* tasks that use cells behind a borrowed lock
NRemoteTasks ==
  2
\* locks that cells borrow
NRawLocks ==
  2
\* inodes of the file system
NInodes ==
  3
\* names a directory entry may carry
NNames ==
  3
\* blocks of the disk (superblock size)
FsSize ==
  10
\* blocks that mkfs marks in use: boot, superblock, log, inodes, bitmap
NMeta ==
  6
\* bytes of bitmap in a bitmap block (param.rs BSIZE is 1024)
BmapBytes ==
  1
\* tasks that work on the one RcCell at the same time
NCellTasks ==
  2
\* Ref handles a task (or the owner of the StaticRefCell) holds at most
MaxRefs ==
  2
\* Buf handles of one block that processes hold outside the log
MaxBufRefs ==
  1

Slots == 1..CAPACITY
Keys == 1..NKeys

VARIABLES
  flavor,    \* which implementor of the Arena trait is under test
  entries,   \* the arena's slots: refcnt and payload of every entry
  list,      \* MruArena.list, front first
  held,      \* handles out: held[s] handles the client tasks hold to slot s
  fin,       \* slots whose finalize runs with the arena lock released, each in
             \* the dealloc of one task
  ret,       \* the arena operation that made the last step, and its result
  recency,   \* slots by last use (acquire or release), most recent first
  procs,        \* process_pool: state, pid, killed, xstate, waitchannel, parent
  nextpid,      \* ProcsBuilder.nextpid
  initial_proc, \* ProcsBuilder.initial_proc, 0 while null
  wait_lock,    \* holder of ProcsBuilder.wait_lock, 0 while free
  plock,        \* plock[p]: holder of the info lock of slot p, 0 while free
  cpus,         \* cpus[c]: the proc pointer of CPU c, 0 while null
  pc,           \* pc[p]: where the kernel thread of slot p stands
  local,        \* local[p]: arguments and locals of the call p is in
  reaped,       \* pids that a wait has returned
  last,         \* the return made last: call, caller, result, slot, word copied out
  pipe,         \* PipeInner: data, nread, nwrite, readopen, writeopen
  tasks,        \* tasks[i]: the call on the pipe task i is in, and its channel
  pkilled,      \* pkilled[i]: the killed flag of task i
  accepted,     \* the bytes put into the ring so far, in order
  delivered,    \* the bytes copied out to readers so far, in order
  dropped,      \* a byte was taken from the ring and copied nowhere
  issued,       \* bytes handed to write so far
  pret,         \* the return made last by read or write
  log,          \* Log: outstanding, committing, the list of logged block numbers
  txs,          \* txs[i]: where task i stands in its transaction, and its blocks
  bcache,       \* bcache[b]: data and refcnt of the buffer that caches block b
  disk,         \* the disk: home blocks, the slots of the log, the header
  logpc,        \* where the commit or the recovery in progress stands
  snap,         \* home blocks before and after the commit started last
  crashed,      \* where the commit stood at the crash being recovered from
  hart,         \* hart[c]: mode, noff, intena and the interrupt enable of CPU c
  locked,       \* locked[l]: the CPU that holds spinlock l, 0 while free
  sleeplocks,   \* sleeplocks[l]: the locked flag and the holder of sleep lock l
  sleepers,     \* sleepers[i]: where task i stands with the sleep lock it wants
  rawlocks,     \* rawlocks[l]: the task that holds the guard of lock l, 0 while free
  cellrefs,     \* references to the data of cells that tasks hold
  cellret,      \* what the last call for a reference to a cell returned
  itable,       \* itable[k]: typ, nlink, dev and emptiness of inode k
  rootdir,      \* the directory the paths name: its nlink and its entries
  fsret,        \* the file-system call made last: its arguments and result
  bmap,         \* bmap[j][n]: byte n of the data of bitmap block j
  blockdata,    \* blockdata[b]: what disk block b holds (0: all-zero)
  bret,         \* the block call made last: balloc or bfree, its block, the bitmap before
  rcell,        \* the counter of the RcCell (AtomicUsize refcnt)
  rctasks,      \* rctasks[i]: where task i is in try_borrow, the r it loaded, the Ref and RefMut it holds
  scell,        \* the StaticRefCell, [refcnt, data]
  sheld,        \* the Ref and RefMut handles of the StaticRefCell that exist
  bufrefs,      \* bufrefs[b]: the Buf handles of block b that processes hold outside the log
  pagefrees     \* how many times the page of the pipe was given back to the allocator

arenaVars == <<flavor, entries, list, held, fin, ret, recency>>
procVars == <<procs, nextpid, initial_proc, wait_lock, plock, cpus, pc, local,
              reaped, last>>
pipeVars == <<pipe, tasks, pkilled, accepted, delivered, dropped, issued, pret>>
logVars == <<log, txs, bcache, disk, logpc, snap, crashed>>
intrVars == <<hart, locked>>
sleepVars == <<sleeplocks, sleepers>>
remoteVars == <<rawlocks, cellrefs, cellret>>
inodeVars == <<itable, rootdir, fsret>>
ballocVars == <<bmap, blockdata, bret>>
cellVars == <<rcell, rctasks, scell, sheld>>
bufVars == <<bufrefs>>
pageVars == <<pagefrees>>
vars == <<arenaVars, procVars, pipeVars, logVars, intrVars, sleepVars, remoteVars, inodeVars, ballocVars, cellVars, bufVars, pageVars>>
outsideArena == <<procVars, pipeVars, logVars, intrVars, sleepVars, remoteVars, inodeVars, ballocVars, cellVars, bufVars, pageVars>>
outsideProc == <<arenaVars, pipeVars, logVars, intrVars, sleepVars, remoteVars, inodeVars, ballocVars, cellVars, bufVars, pageVars>>
outsidePipe == <<arenaVars, procVars, logVars, intrVars, sleepVars, remoteVars, inodeVars, ballocVars, cellVars, bufVars, pageVars>>
outsideLog == <<arenaVars, procVars, pipeVars, intrVars, sleepVars, remoteVars, inodeVars, ballocVars, cellVars, bufVars, pageVars>>
outsideIntr == <<arenaVars, procVars, pipeVars, logVars, sleepVars, remoteVars, inodeVars, ballocVars, cellVars, bufVars, pageVars>>
outsideSleep == <<arenaVars, procVars, pipeVars, logVars, intrVars, remoteVars, inodeVars, ballocVars, cellVars, bufVars, pageVars>>
outsideRemote == <<arenaVars, procVars, pipeVars, logVars, intrVars, sleepVars, inodeVars, ballocVars, cellVars, bufVars, pageVars>>
outsideInode == <<arenaVars, procVars, pipeVars, logVars, intrVars, sleepVars, remoteVars, ballocVars, cellVars, bufVars, pageVars>>
outsideBalloc == <<arenaVars, procVars, pipeVars, logVars, intrVars, sleepVars, remoteVars, inodeVars, cellVars, bufVars, pageVars>>
outsideCell == <<arenaVars, procVars, pipeVars, logVars, intrVars, sleepVars, remoteVars, inodeVars, ballocVars, bufVars, pageVars>>
outsideBuf == <<arenaVars, procVars, pipeVars, logVars, intrVars, sleepVars, remoteVars, inodeVars, ballocVars, cellVars, pageVars>>
outsidePage == <<arenaVars, procVars, pipeVars, logVars, intrVars, sleepVars, remoteVars, inodeVars, ballocVars, cellVars, bufVars>>

(***************************************************************************)
(* StaticRefCell (static_refcell.rs).  A cell is [refcnt, data]; data 0 is *)
(* a payload no client has initialized.                                    *)
(***************************************************************************)
\* usize::MAX, at the width of the model's integers
BORROWED_MUT ==
  2147483647

NoData == 0

StaticRefCell_new ==
  [refcnt |-> 0, data |-> NoData]

None == [some |-> FALSE, cell |-> StaticRefCell_new]
Some(c) == [some |-> TRUE, cell |-> c]

is_borrowed(c) ==
  c.refcnt # 0

try_borrow(c) ==
  IF c.refcnt = BORROWED_MUT - 1 \/ c.refcnt = BORROWED_MUT
  THEN None
  ELSE Some([c EXCEPT !.refcnt = c.refcnt + 1])

try_borrow_mut(c) ==
  IF is_borrowed(c)
  THEN None
  ELSE Some([c EXCEPT !.refcnt = BORROWED_MUT])

\* From<RefMut<T>> for Ref<T>
Ref_from(c) ==
  [c EXCEPT !.refcnt = 1]

\* a clone that does not count itself
Ref_clone_uncounted(c) ==
  c

Ref_clone(c) ==
  [c EXCEPT !.refcnt = c.refcnt + 1]

Ref_drop(c) ==
  [c EXCEPT !.refcnt = c.refcnt - 1]

RefMut_drop(c) ==
  [c EXCEPT !.refcnt = 0]

\* a promotion that leaves the counter at 1 instead of the sentinel
RefMut_try_from_keeps_count(c) ==
  IF c.refcnt = 1
  THEN Some(c)
  ELSE None

\* a promotion that does not ask whether this is the only Ref
RefMut_try_from_any(c) ==
  IF c.refcnt >= 1
  THEN Some([c EXCEPT !.refcnt = BORROWED_MUT])
  ELSE None

\* TryFrom<Ref<T>> for RefMut<T>; on Err the consumed Ref is dropped by the caller
RefMut_try_from(c) ==
  IF c.refcnt = 1
  THEN Some([c EXCEPT !.refcnt = BORROWED_MUT])
  ELSE None

\* number of Ref handles a cell counts: the sentinel is the one RefMut, no Ref
RefCount(c) ==
  IF c.refcnt = BORROWED_MUT THEN 0 ELSE c.refcnt

(***************************************************************************)
(* Intrusive list (crate::list), as the sequence of entries front first.   *)
(***************************************************************************)
push_front(l, e) ==
  <<e>> \o l

push_back(l, e) ==
  Append(l, e)

remove(l, e) ==
  SelectSeq(l, LAMBDA x : x # e)

RECURSIVE MruArena_init(_, _)
MruArena_init(l, i) ==
  IF i > CAPACITY THEN l ELSE MruArena_init(push_front(l, i), i + 1)

MoveToFront(l, e) ==
  <<e>> \o SelectSeq(l, LAMBDA x : x # e)

(***************************************************************************)
(* ArrayArena                                                              *)
(***************************************************************************)
\* a scan that stops at the first free slot instead of visiting every entry
RECURSIVE ArrayScan_breaks(_, _, _, _)
ArrayScan_breaks(ents, i, empty, k) ==
  IF i > CAPACITY
  THEN [ents |-> ents, empty |-> empty, found |-> 0]
  ELSE LET rm == try_borrow_mut(ents[i])
           r == try_borrow(ents[i])
       IN IF rm.some
          THEN [ents |-> [ents EXCEPT ![i] = rm.cell], empty |-> i, found |-> 0]
          ELSE IF r.some
               THEN IF r.cell.data = k
                    THEN [ents |-> [ents EXCEPT ![i] = r.cell], empty |-> 0, found |-> i]
                    ELSE ArrayScan_breaks([ents EXCEPT ![i] = Ref_drop(r.cell)],
                                          i + 1, empty, k)
               ELSE ArrayScan_breaks(ents, i + 1, empty, k)

\* the loop of find_or_alloc_handle from entry i on; empty is the slot whose
\* RefMut is kept (0: none), found the slot whose Ref is returned (0: none)
RECURSIVE ArrayScan(_, _, _, _)
ArrayScan(ents, i, empty, k) ==
  IF i > CAPACITY
  THEN [ents |-> ents, empty |-> empty, found |-> 0]
  ELSE LET rm == try_borrow_mut(ents[i])
           r == try_borrow(ents[i])
       IN IF rm.some
          THEN IF empty = 0
               THEN ArrayScan([ents EXCEPT ![i] = rm.cell], i + 1, i, k)
               ELSE ArrayScan([ents EXCEPT ![i] = RefMut_drop(rm.cell)], i + 1, empty, k)
          ELSE IF r.some
               THEN IF r.cell.data = k
                    THEN [ents |-> IF empty = 0
                                   THEN [ents EXCEPT ![i] = r.cell]
                                   ELSE [ents EXCEPT ![i] = r.cell,
                                                     ![empty] = RefMut_drop(ents[empty])],
                          empty |-> 0, found |-> i]
                    ELSE ArrayScan([ents EXCEPT ![i] = Ref_drop(r.cell)], i + 1, empty, k)
               ELSE ArrayScan(ents, i + 1, empty, k)

RECURSIVE ArrayAllocScan(_, _, _)
ArrayAllocScan(ents, i, v) ==
  IF i > CAPACITY
  THEN [ents |-> ents, slot |-> 0, init |-> 0]
  ELSE LET rm == try_borrow_mut(ents[i])
       IN IF rm.some
          THEN [ents |-> [ents EXCEPT ![i] = Ref_from([rm.cell EXCEPT !.data = v])],
                slot |-> i, init |-> 1]
          ELSE ArrayAllocScan(ents, i + 1, v)

\* a lookup that commits to a free slot before it has looked for a match
ArrayArena_find_or_alloc_handle_allocs_first(ents, k) ==
  LET a == ArrayAllocScan(ents, 1, k)
      s == ArrayScan(ents, 1, 0, k)
  IN IF a.slot # 0
     THEN a
     ELSE [ents |-> s.ents, slot |-> s.found, init |-> 0]

\* result of a lookup: the entries afterwards, the slot of the handle (0: None)
\* and the number of calls of the init closure n
ArrayArena_find_or_alloc_handle(ents, k) ==
  LET s == ArrayScan(ents, 1, 0, k)
  IN IF s.found # 0
     THEN [ents |-> s.ents, slot |-> s.found, init |-> 0]
     ELSE IF s.empty # 0
          THEN [ents |-> [s.ents EXCEPT ![s.empty] =
                            Ref_from([s.ents[s.empty] EXCEPT !.data = k])],
                slot |-> s.empty, init |-> 1]
          ELSE [ents |-> s.ents, slot |-> 0, init |-> 0]

ArrayArena_alloc_handle(ents, v) ==
  ArrayAllocScan(ents, 1, v)

ArrayArena_dup(ents, s) ==
  [ents EXCEPT ![s] = Ref_clone(ents[s])]

\* dealloc up to the call of finalize: fin is the number of finalize calls
ArrayArena_dealloc(ents, s) ==
  LET rm == RefMut_try_from(ents[s])
  IN IF rm.some
     THEN [ents |-> [ents EXCEPT ![s] = rm.cell], fin |-> 1]
     ELSE [ents |-> [ents EXCEPT ![s] = Ref_drop(ents[s])], fin |-> 0]

\* the end of dealloc's if-let block: finalize has returned, rm is dropped
ArrayArena_dealloc_end(ents, s) ==
  [ents EXCEPT ![s] = RefMut_drop(ents[s])]

(***************************************************************************)
(* MruArena                                                                *)
(***************************************************************************)
\* the loop of find_or_alloc_handle over list position j on
RECURSIVE MruScan(_, _, _, _, _)
MruScan(ents, l, j, empty, k) ==
  IF j > Len(l)
  THEN [found |-> 0, empty |-> empty]
  ELSE IF ents[l[j]].data = k
       THEN [found |-> l[j], empty |-> empty]
       ELSE IF ents[l[j]].refcnt = 0
            THEN MruScan(ents, l, j + 1, l[j], k)
            ELSE MruScan(ents, l, j + 1, empty, k)

\* a lookup that initializes again an entry it finds released
MruArena_find_or_alloc_handle_inits_released(ents, l, k) ==
  LET s == MruScan(ents, l, 1, 0, k)
  IN IF s.found # 0
     THEN IF ents[s.found].refcnt = 0
          THEN [ents |-> [ents EXCEPT ![s.found] = [refcnt |-> 1, data |-> k]],
                slot |-> s.found, init |-> 1]
          ELSE [ents |-> [ents EXCEPT ![s.found].refcnt = @ + 1], slot |-> s.found, init |-> 0]
     ELSE IF s.empty = 0
          THEN [ents |-> ents, slot |-> 0, init |-> 0]
          ELSE [ents |-> [ents EXCEPT ![s.empty] = [refcnt |-> 1, data |-> k]],
                slot |-> s.empty, init |-> 1]

MruArena_find_or_alloc_handle(ents, l, k) ==
  LET s == MruScan(ents, l, 1, 0, k)
  IN IF s.found # 0
     THEN [ents |-> [ents EXCEPT ![s.found].refcnt = @ + 1], slot |-> s.found, init |-> 0]
     ELSE IF s.empty = 0
          THEN [ents |-> ents, slot |-> 0, init |-> 0]
          ELSE [ents |-> [ents EXCEPT ![s.empty] = [refcnt |-> 1, data |-> k]],
                slot |-> s.empty, init |-> 1]

\* alloc_handle walks the list from the back
RECURSIVE MruAllocScan(_, _, _, _)
MruAllocScan(ents, l, j, v) ==
  IF j < 1
  THEN [ents |-> ents, slot |-> 0, init |-> 0]
  ELSE IF ents[l[j]].refcnt = 0
       THEN [ents |-> [ents EXCEPT ![l[j]] = [refcnt |-> 1, data |-> v]],
             slot |-> l[j], init |-> 1]
       ELSE MruAllocScan(ents, l, j - 1, v)

MruArena_alloc_handle(ents, l, v) ==
  MruAllocScan(ents, l, Len(l), v)

MruArena_dup(ents, s) ==
  [ents EXCEPT ![s].refcnt = @ + 1]

\* the buffer's finalize does nothing and keeps the lock
MruArena_dealloc(ents, l, s) ==
  LET n == ents[s].refcnt - 1
  IN [ents |-> [ents EXCEPT ![s].refcnt = n],
      list |-> IF n = 0 THEN push_back(remove(l, s), s) ELSE l,
      fin |-> IF ents[s].refcnt = 1 THEN 1 ELSE 0]

(***************************************************************************)
(* The payload's finalize: an inode's (ArrayArena) may truncate the file   *)
(* and so release the arena lock through reacquire_after; a buffer's       *)
(* (MruArena) is a no-op.                                                  *)
(***************************************************************************)
finalize_may_reacquire(fl) ==
  fl = "array"

(***************************************************************************)
(* Arena operations of the client tasks.  Every operation takes the arena  *)
(* lock for its whole body, so it is one step; a dealloc whose finalize    *)
(* releases the lock is two.  A task inside finalize does nothing else.    *)
(***************************************************************************)
RECURSIVE Sum(_, _)
Sum(f, n) ==
  IF n = 0 THEN 0 ELSE f[n] + Sum(f, n - 1)

HeldCount ==
  Sum(held, CAPACITY)

\* some task is not inside a finalize
TaskFree ==
  Cardinality(fin) < NTasks

Touch(s) ==
  IF flavor = "mru" /\ s # 0 THEN MoveToFront(recency, s) ELSE recency

Result(op, k, s, init, f, pre) ==
  [op |-> op, key |-> k, slot |-> s, init |-> init, fin |-> f, pre |-> pre]

ArenaInit ==
  /\ flavor \in {"array", "mru"}
  /\ entries = [s \in Slots |-> StaticRefCell_new]
  /\ list = IF flavor = "mru" THEN MruArena_init(<<>>, 1) ELSE <<>>
  /\ held = [s \in Slots |-> 0]
  /\ fin = {}
  /\ ret = Result("none", 0, 0, 0, 0, 0)
  /\ recency = IF flavor = "mru" THEN MruArena_init(<<>>, 1) ELSE <<>>

Granted(r, op, k) ==
  /\ entries' = r.ents
  /\ held' = IF r.slot = 0 THEN held ELSE [held EXCEPT ![r.slot] = @ + 1]
  /\ ret' = Result(op, k, r.slot, r.init, 0, 0)
  /\ recency' = Touch(r.slot)
  /\ UNCHANGED <<flavor, list, fin>>
  /\ UNCHANGED outsideArena

find_or_alloc(k) ==
  /\ TaskFree
  /\ HeldCount < MaxHeld
  /\ Granted(IF flavor = "array"
             THEN ArrayArena_find_or_alloc_handle(entries, k)
             ELSE MruArena_find_or_alloc_handle(entries, list, k),
             "find_or_alloc", k)

alloc(v) ==
  /\ TaskFree
  /\ HeldCount < MaxHeld
  /\ Granted(IF flavor = "array"
             THEN ArrayArena_alloc_handle(entries, v)
             ELSE MruArena_alloc_handle(entries, list, v),
             "alloc", v)

dup(s) ==
  /\ TaskFree
  /\ held[s] > 0
  /\ HeldCount < MaxHeld
  /\ Granted([ents |-> IF flavor = "array"
                       THEN ArrayArena_dup(entries, s)
                       ELSE MruArena_dup(entries, s),
              slot |-> s, init |-> 0],
             "dup", entries[s].data)

\* dealloc whose finalize, if called, returns without releasing the lock
dealloc(s) ==
  /\ TaskFree
  /\ held[s] > 0
  /\ LET r == IF flavor = "array"
              THEN LET b == ArrayArena_dealloc(entries, s)
                   IN [ents |-> IF b.fin = 1
                                THEN ArrayArena_dealloc_end(b.ents, s)
                                ELSE b.ents,
                       list |-> list, fin |-> b.fin]
              ELSE MruArena_dealloc(entries, list, s)
     IN /\ entries' = r.ents
        /\ list' = r.list
        /\ ret' = Result("dealloc", entries[s].data, s, 0, r.fin, RefCount(entries[s]))
  /\ held' = [held EXCEPT ![s] = @ - 1]
  /\ recency' = Touch(s)
  /\ UNCHANGED <<flavor, fin>>
  /\ UNCHANGED outsideArena

\* dealloc of the last handle: finalize is called and releases the lock
dealloc_reacquire(s) ==
  /\ TaskFree
  /\ held[s] > 0
  /\ finalize_may_reacquire(flavor)
  /\ LET b == ArrayArena_dealloc(entries, s)
     IN /\ b.fin = 1
        /\ entries' = b.ents
        /\ ret' = Result("finalize", entries[s].data, s, 0, b.fin, RefCount(entries[s]))
  /\ held' = [held EXCEPT ![s] = @ - 1]
  /\ fin' = fin \cup {s}
  /\ UNCHANGED <<flavor, list, recency>>
  /\ UNCHANGED outsideArena

\* finalize takes the lock again and returns; dealloc drops the RefMut
dealloc_return(s) ==
  /\ s \in fin
  /\ entries' = ArrayArena_dealloc_end(entries, s)
  /\ ret' = Result("dealloc", entries[s].data, s, 0, 1, 1)
  /\ fin' = fin \ {s}
  /\ UNCHANGED <<flavor, list, held, recency>>
  /\ UNCHANGED outsideArena

ArenaKeyedNext ==
  \/ \E k \in Keys : find_or_alloc(k)
  \/ \E s \in Slots : dup(s)
  \/ \E s \in Slots : dealloc(s)
  \/ \E s \in Slots : dealloc_reacquire(s)
  \/ \E s \in Slots : dealloc_return(s)

ArenaNext ==
  \/ ArenaKeyedNext
  \/ \E v \in Keys : alloc(v)

(***************************************************************************)
(* The process system (proc/procs.rs).  A kernel thread is named by the    *)
(* slot of its process; it holds locks and runs while its process is       *)
(* RUNNING on some CPU.  Steps are the stretches of code between two       *)
(* acquisitions of the wait-lock or of an info lock held across a call;    *)
(* inside a handler that holds the wait-lock, the info locks it takes and  *)
(* releases one after another are taken within the step.                   *)
(***************************************************************************)
Procs == 1..NPROC
Cpus == 1..NCPU
Statuses == 0..MaxStatus

\* null *const Proc
NullProc == 0
\* null *const WaitChannel
NullChan == 0
\* the thread of kernel_main on CPU 0, which runs user_proc_init
BootThread == NPROC + 1
\* the address wait is called with: null, mapped in the caller's memory, not
\* mapped
NullAddr == 0
UserAddr == 1
BadAddr == 2
Addrs == {NullAddr, UserAddr, BadAddr}
\* no word copied out
Unwritten == -1

\* the word wait leaves at addr: copy_out is called for a non-null address only
copy_out(addr, xstate) ==
  IF addr = NullAddr THEN Unwritten ELSE xstate

ProcBuilder_zero ==
  [state |-> "UNUSED", pid |-> 0, killed |-> FALSE, xstate |-> 0,
   waitchannel |-> NullChan, parent |-> NullProc]

child_waitchannel_null(p) ==
  NullChan

\* the address of the child_waitchannel field of slot p
child_waitchannel(p) ==
  p

\* the locals of a process in the kernel, and register a0 of the trap frame
\* it was created with
NoLocals ==
  [np |-> NullProc, status |-> 0, addr |-> NullAddr, a0 |-> 0]

Last(op, p, r, s, w) ==
  [op |-> op, proc |-> p, ret |-> r, slot |-> s, out |-> w]

\* a step that is no return of fork, wait or kill and no exit
NoStep ==
  Last("none", 0, 0, 0, Unwritten)

ProcsInit ==
  /\ procs = [p \in Procs |-> ProcBuilder_zero]
  /\ nextpid = 1
  /\ initial_proc = NullProc
  /\ wait_lock = 0
  /\ plock = [p \in Procs |-> 0]
  /\ cpus = [c \in Cpus |-> NullProc]
  /\ pc = [p \in Procs |-> "none"]
  /\ local = [p \in Procs |-> NoLocals]
  /\ reaped = {}
  /\ last = NoStep

\* ProcGuard::wakeup
ProcGuard_wakeup(p) ==
  IF p.state = "SLEEPING" THEN [p EXCEPT !.state = "RUNNABLE"] ELSE p

\* ProcGuard::clear
ProcGuard_clear(p) ==
  ProcBuilder_zero

\* Proc::kill
Proc_kill(p) ==
  [p EXCEPT !.killed = TRUE]

\* WaitChannel::sleep, up to the switch to the scheduler
WaitChannel_sleep(p, ch) ==
  [p EXCEPT !.waitchannel = ch, !.state = "SLEEPING"]

\* what the process does when the scheduler switches back to it, in forkret,
\* proc_yield or sleep, before it releases its info lock
sched_return(p, at) ==
  IF at = "wait_sleep" THEN [p EXCEPT !.waitchannel = NullChan] ELSE p

FirstSlot(S) ==
  IF S = {} THEN 0 ELSE CHOOSE j \in S : \A k \in S : j <= k

LocksFree(S) ==
  \A j \in S : plock[j] = 0

Running(i) ==
  procs[i].state = "RUNNING"

LeaveCpu(i) ==
  [c \in Cpus |-> IF cpus[c] = i THEN NullProc ELSE cpus[c]]

\* an alloc that takes the first slot whatever its state
Procs_alloc_unchecked(ps, pid) ==
  [slot |-> 1, procs |-> [ps EXCEPT ![1].pid = pid, ![1].state = "USED"]]

Procs_alloc(ps, pid) ==
  LET j == FirstSlot({k \in Procs : ps[k].state = "UNUSED"})
  IN [slot |-> j,
      procs |-> IF j = 0 THEN ps
                ELSE [ps EXCEPT ![j].pid = pid, ![j].state = "USED"]]

allocpid ==
  nextpid + 1

\* a wakeup that does not compare the channel
wakeup_pool_any_channel(ps, target, current_proc) ==
  [p \in Procs |->
     IF p # current_proc
     THEN ProcGuard_wakeup(ps[p])
     ELSE ps[p]]

wakeup_pool_lost(ps, target, current_proc) ==
  ps

wakeup_pool(ps, target, current_proc) ==
  [p \in Procs |->
     IF p # current_proc /\ ps[p].waitchannel = target
     THEN ProcGuard_wakeup(ps[p])
     ELSE ps[p]]

reparent_keeps_parent(ps, proc, init) ==
  ps

reparent(ps, proc, init) ==
  LET moved == {pp \in Procs : ps[pp].parent = proc}
      ps1 == [pp \in Procs |->
                IF pp \in moved THEN [ps[pp] EXCEPT !.parent = init] ELSE ps[pp]]
  IN IF moved = {} THEN ps1
     ELSE wakeup_pool(ps1, child_waitchannel(init), proc)

\* np.reacquire_after in fork: the guard of the child is released for the
\* closure that takes the wait-lock
reacquire_after_keeps_guard(pl, np) ==
  pl

reacquire_after(pl, np) ==
  [pl EXCEPT ![np] = 0]

is_child_or_not(ps, np, me) ==
  TRUE

is_child(ps, np, me) ==
  ps[np].parent = me

\* the scan of wait: the children of `me` and the first ZOMBIE among them
WaitScan(ps, me) ==
  LET kids == {np \in Procs : is_child(ps, np, me)}
  IN [kids |-> kids,
      zombie |-> FirstSlot({np \in kids : ps[np].state = "ZOMBIE"})]

\* `!havekids || ctx.proc().killed()`: wait gives up after a scan without ZOMBIE
wait_gives_up_without_kids(ps, me, kids) ==
  kids = {}

wait_gives_up(ps, me, kids) ==
  kids = {} \/ ps[me].killed

\* `guard.state() == Procstate::RUNNABLE`, read under the lock of the slot
scheduler_chooses_running_too(ps, p) ==
  ps[p].state \in {"RUNNABLE", "RUNNING"}

scheduler_chooses(ps, p) ==
  ps[p].state = "RUNNABLE"

(***************************************************************************)
(* Boot: user_proc_init runs before any scheduler starts (kernel_main).    *)
(***************************************************************************)
user_proc_init_alloc ==
  /\ initial_proc = NullProc
  /\ \A j \in Procs : plock[j] # BootThread
  /\ LET r == Procs_alloc(procs, nextpid)
     IN /\ r.slot # 0
        /\ procs' = r.procs
        /\ plock' = [plock EXCEPT ![r.slot] = BootThread]
        /\ pc' = [pc EXCEPT ![r.slot] = "forkret"]
        /\ last' = NoStep
  /\ nextpid' = allocpid
  /\ UNCHANGED <<initial_proc, wait_lock, cpus, local, reaped>>
  /\ UNCHANGED outsideProc

user_proc_init ==
  /\ \E j \in Procs :
       /\ plock[j] = BootThread
       /\ procs' = [procs EXCEPT ![j].state = "RUNNABLE"]
       /\ plock' = [plock EXCEPT ![j] = 0]
       /\ initial_proc' = j
       /\ last' = NoStep
  /\ UNCHANGED <<nextpid, wait_lock, cpus, pc, local, reaped>>
  /\ UNCHANGED outsideProc

(***************************************************************************)
(* One turn of the loop of scheduler() on CPU c that finds slot p RUNNABLE,*)
(* and the return of p from the switch.                                    *)
(***************************************************************************)
scheduler(c, p) ==
  /\ initial_proc # NullProc
  /\ cpus[c] = NullProc
  /\ plock[p] = 0
  /\ scheduler_chooses(procs, p)
  /\ procs' = [procs EXCEPT ![p] = sched_return([@ EXCEPT !.state = "RUNNING"], pc[p])]
  /\ cpus' = [cpus EXCEPT ![c] = p]
  /\ pc' = [pc EXCEPT ![p] = IF @ = "forkret" THEN "user" ELSE @]
  /\ last' = NoStep
  /\ UNCHANGED <<nextpid, initial_proc, wait_lock, plock, local, reaped>>
  /\ UNCHANGED outsideProc

\* the timer interrupt in user mode: the trap handler yields
proc_yield(i) ==
  /\ pc[i] = "user"
  /\ Running(i)
  /\ plock[i] = 0
  /\ procs' = [procs EXCEPT ![i].state = "RUNNABLE"]
  /\ cpus' = LeaveCpu(i)
  /\ last' = NoStep
  /\ UNCHANGED <<nextpid, initial_proc, wait_lock, plock, pc, local, reaped>>
  /\ UNCHANGED outsideProc

(***************************************************************************)
(* fork                                                                    *)
(***************************************************************************)
\* what register a0 of the caller holds when it enters the system call
UserWords == {0, MaxPid}

\* a0 of the trap frame of the child: the frame of the parent is copied,
\* then `(*npdata.trap_frame).a0 = 0`
fork_trap_frame(a0) ==
  0

\* the trap frame or the copy of the memory cannot be allocated, or no slot
\* is UNUSED
fork_fail(i) ==
  /\ pc[i] = "user"
  /\ Running(i)
  /\ \E nomem \in BOOLEAN :
       \/ nomem
       \/ /\ Procs_alloc(procs, nextpid).slot = 0
          /\ LocksFree(Procs)
  /\ last' = Last("fork", i, -1, 0, Unwritten)
  /\ UNCHANGED <<procs, nextpid, initial_proc, wait_lock, plock, cpus, pc, local,
                 reaped>>
  /\ UNCHANGED outsideProc

\* fork to the return of alloc, with the guard of the child held
fork_alloc(i) ==
  /\ pc[i] = "user"
  /\ Running(i)
  /\ nextpid <= MaxPid
  /\ LET r == Procs_alloc(procs, nextpid)
     IN /\ r.slot # 0
        /\ LocksFree(1..r.slot)
        /\ procs' = r.procs
        /\ plock' = [plock EXCEPT ![r.slot] = i]
        /\ pc' = [pc EXCEPT ![i] = "fork_unlock", ![r.slot] = "forkret"]
        /\ \E a0 \in UserWords :
             local' = [local EXCEPT ![i].np = r.slot,
                                    ![r.slot].a0 = fork_trap_frame(a0)]
        /\ last' = NoStep
  /\ nextpid' = allocpid
  /\ UNCHANGED <<initial_proc, wait_lock, cpus, reaped>>
  /\ UNCHANGED outsideProc

fork_unlock(i) ==
  /\ pc[i] = "fork_unlock"
  /\ plock' = reacquire_after(plock, local[i].np)
  /\ pc' = [pc EXCEPT ![i] = "fork_guard"]
  /\ last' = NoStep
  /\ UNCHANGED <<procs, nextpid, initial_proc, wait_lock, cpus, local, reaped>>
  /\ UNCHANGED outsideProc

fork_wait_guard(i) ==
  /\ pc[i] = "fork_guard"
  /\ wait_lock = 0
  /\ wait_lock' = i
  /\ pc' = [pc EXCEPT ![i] = "fork_parent"]
  /\ last' = NoStep
  /\ UNCHANGED <<procs, nextpid, initial_proc, plock, cpus, local, reaped>>
  /\ UNCHANGED outsideProc

\* a fork that leaves the parent field of the child as alloc made it
fork_parent_unwritten(i) ==
  /\ pc[i] = "fork_parent"
  /\ wait_lock' = 0
  /\ pc' = [pc EXCEPT ![i] = "fork_relock"]
  /\ last' = NoStep
  /\ UNCHANGED <<procs, nextpid, initial_proc, plock, cpus, local, reaped>>
  /\ UNCHANGED outsideProc

fork_parent(i) ==
  /\ pc[i] = "fork_parent"
  /\ procs' = [procs EXCEPT ![local[i].np].parent = i]
  /\ wait_lock' = 0
  /\ pc' = [pc EXCEPT ![i] = "fork_relock"]
  /\ last' = NoStep
  /\ UNCHANGED <<nextpid, initial_proc, plock, cpus, local, reaped>>
  /\ UNCHANGED outsideProc

\* the guard of the child is taken again; the child becomes RUNNABLE
fork(i) ==
  /\ pc[i] = "fork_relock"
  /\ plock[local[i].np] = 0
  /\ procs' = [procs EXCEPT ![local[i].np].state = "RUNNABLE"]
  /\ pc' = [pc EXCEPT ![i] = "user"]
  /\ local' = [local EXCEPT ![i].np = NullProc]
  /\ last' = Last("fork", i, procs[local[i].np].pid, local[i].np, Unwritten)
  /\ UNCHANGED <<nextpid, initial_proc, wait_lock, plock, cpus, reaped>>
  /\ UNCHANGED outsideProc

(***************************************************************************)
(* exit                                                                    *)
(***************************************************************************)
exit_wait_guard(i, status) ==
  /\ pc[i] = "user"
  /\ Running(i)
  /\ i # initial_proc
  /\ wait_lock = 0
  /\ wait_lock' = i
  /\ pc' = [pc EXCEPT ![i] = "exit"]
  /\ local' = [local EXCEPT ![i].status = status]
  /\ last' = NoStep
  /\ UNCHANGED <<procs, nextpid, initial_proc, plock, cpus, reaped>>
  /\ UNCHANGED outsideProc

exit_current(i) ==
  /\ pc[i] = "exit"
  /\ LocksFree(Procs)
  /\ LET ps1 == reparent(procs, i, initial_proc)
         parent == ps1[i].parent
         ps2 == wakeup_pool(ps1, child_waitchannel(parent), i)
     IN /\ parent # NullProc
        /\ procs' = [ps2 EXCEPT ![i].xstate = local[i].status,
                                ![i].state = "ZOMBIE"]
  /\ wait_lock' = 0
  /\ cpus' = LeaveCpu(i)
  /\ pc' = [pc EXCEPT ![i] = "zombie"]
  /\ last' = Last("exit", i, 0, FirstSlot({pp \in Procs : procs[pp].parent = i}), Unwritten)
  /\ UNCHANGED <<nextpid, initial_proc, plock, local, reaped>>
  /\ UNCHANGED outsideProc

(***************************************************************************)
(* wait                                                                    *)
(***************************************************************************)
wait_guard(i, addr) ==
  /\ pc[i] = "user"
  /\ Running(i)
  /\ wait_lock = 0
  /\ wait_lock' = i
  /\ pc' = [pc EXCEPT ![i] = "wait"]
  /\ local' = [local EXCEPT ![i].addr = addr]
  /\ last' = NoStep
  /\ UNCHANGED <<procs, nextpid, initial_proc, plock, cpus, reaped>>
  /\ UNCHANGED outsideProc

\* a ZOMBIE child is found, its status copied out, its slot cleared
wait(i) ==
  /\ pc[i] = "wait"
  /\ LET np == WaitScan(procs, i).zombie
     IN /\ np # 0
        /\ LocksFree({k \in WaitScan(procs, i).kids : k <= np})
        /\ local[i].addr # BadAddr
        /\ procs' = [procs EXCEPT ![np] = ProcGuard_clear(@)]
        /\ pc' = [pc EXCEPT ![i] = "user", ![np] = "none"]
        /\ local' = [local EXCEPT ![i].addr = NullAddr, ![np] = NoLocals]
        /\ reaped' = reaped \cup {procs[np].pid}
        /\ last' = Last("wait", i, procs[np].pid, np, copy_out(local[i].addr, procs[np].xstate))
  /\ wait_lock' = 0
  /\ UNCHANGED <<nextpid, initial_proc, plock, cpus>>
  /\ UNCHANGED outsideProc

\* copy_out fails, or there is no child, or the caller is killed
wait_err(i) ==
  /\ pc[i] = "wait"
  /\ LET s == WaitScan(procs, i)
     IN \/ /\ s.zombie # 0
           /\ LocksFree({k \in s.kids : k <= s.zombie})
           /\ local[i].addr = BadAddr
        \/ /\ s.zombie = 0
           /\ LocksFree(s.kids)
           /\ wait_gives_up(procs, i, s.kids)
  /\ wait_lock' = 0
  /\ pc' = [pc EXCEPT ![i] = "user"]
  /\ local' = [local EXCEPT ![i].addr = NullAddr]
  /\ last' = Last("wait", i, -1, 0, Unwritten)
  /\ UNCHANGED <<procs, nextpid, initial_proc, plock, cpus, reaped>>
  /\ UNCHANGED outsideProc

\* children, none of them ZOMBIE: sleep on the own child_waitchannel
wait_sleep(i) ==
  /\ pc[i] = "wait"
  /\ LET s == WaitScan(procs, i)
     IN /\ s.zombie = 0
        /\ LocksFree(s.kids \cup {i})
        /\ ~wait_gives_up(procs, i, s.kids)
  /\ procs' = [procs EXCEPT ![i] = WaitChannel_sleep(@, child_waitchannel(i))]
  /\ wait_lock' = 0
  /\ cpus' = LeaveCpu(i)
  /\ pc' = [pc EXCEPT ![i] = "wait_sleep"]
  /\ last' = NoStep
  /\ UNCHANGED <<nextpid, initial_proc, plock, local, reaped>>
  /\ UNCHANGED outsideProc

\* sleep returns: the wait-lock is taken again
wait_reacquire(i) ==
  /\ pc[i] = "wait_sleep"
  /\ Running(i)
  /\ wait_lock = 0
  /\ wait_lock' = i
  /\ pc' = [pc EXCEPT ![i] = "wait"]
  /\ last' = NoStep
  /\ UNCHANGED <<procs, nextpid, initial_proc, plock, cpus, local, reaped>>
  /\ UNCHANGED outsideProc

(***************************************************************************)
(* kill                                                                    *)
(***************************************************************************)
kill(i, pid) ==
  /\ pc[i] = "user"
  /\ Running(i)
  /\ LET p == FirstSlot({k \in Procs : procs[k].pid = pid})
     IN /\ LocksFree(IF p = 0 THEN Procs ELSE 1..p)
        /\ procs' = IF p = 0 THEN procs
                    ELSE [procs EXCEPT ![p] = ProcGuard_wakeup(Proc_kill(@))]
        /\ last' = Last("kill", i, IF p = 0 THEN -1 ELSE 0, p, Unwritten)
  /\ UNCHANGED <<nextpid, initial_proc, wait_lock, plock, cpus, pc, local, reaped>>
  /\ UNCHANGED outsideProc

ProcNext ==
  \/ user_proc_init_alloc
  \/ user_proc_init
  \/ \E c \in Cpus : \E p \in Procs : scheduler(c, p)
  \/ \E i \in Procs : proc_yield(i)
  \/ \E i \in Procs : fork_fail(i)
  \/ \E i \in Procs : fork_alloc(i)
  \/ \E i \in Procs : fork_unlock(i)
  \/ \E i \in Procs : fork_wait_guard(i)
  \/ \E i \in Procs : fork_parent(i)
  \/ \E i \in Procs : fork(i)
  \/ \E i \in Procs : \E status \in Statuses : exit_wait_guard(i, status)
  \/ \E i \in Procs : exit_current(i)
  \/ \E i \in Procs : \E addr \in Addrs : wait_guard(i, addr)
  \/ \E i \in Procs : wait(i)
  \/ \E i \in Procs : wait_err(i)
  \/ \E i \in Procs : wait_sleep(i)
  \/ \E i \in Procs : wait_reacquire(i)
  \/ \E i \in Procs : \E pid \in 0..MaxPid : kill(i, pid)

(***************************************************************************)
(* Pipes (pipe.rs).  The ring and its counters are PipeInner, guarded by   *)
(* the spinlock of the pipe; every stretch of Pipe::read, Pipe::write and  *)
(* Pipe::close that runs with the spinlock held is one step.  A task is a  *)
(* process with the pipe open; a buffer in user memory is the bytes the    *)
(* caller has there and the number of leading bytes that are mapped.       *)
(***************************************************************************)
PipeTasks == 1..NPipeTasks

PIPESIZE ==
  2^LogPipeSize

\* nread and nwrite are u32 and wrap; the model keeps CounterBits bits of them
CounterModulus ==
  2^CounterBits

wrapping_add(x, y) ==
  (x + y) % CounterModulus

\* the addresses of Pipe.read_waitchannel and Pipe.write_waitchannel
ReadChan ==
  1
WriteChan ==
  2

\* buffers: mapped for the first byte only, mapped throughout
Valids == {1, MaxN}

PipeInner_new ==
  [data |-> [k \in 0..(PIPESIZE - 1) |-> 0],
   nwrite |-> 0, nread |-> 0, readopen |-> TRUE, writeopen |-> TRUE]

NoCall ==
  [pc |-> "idle", waitchannel |-> NullChan, buf |-> <<>>, valid |-> 0,
   n |-> 0, written |-> 0]

PipeRet(op, i, r, bytes) ==
  [op |-> op, task |-> i, ret |-> r, bytes |-> bytes]

PipeInit ==
  /\ pipe = PipeInner_new
  /\ tasks = [i \in PipeTasks |-> NoCall]
  /\ pkilled = [i \in PipeTasks |-> FALSE]
  /\ accepted = <<>>
  /\ delivered = <<>>
  /\ dropped = FALSE
  /\ issued = 0
  /\ pret = PipeRet("none", 0, 0, <<>>)

\* copy_in / copy_out of the byte at offset k of a buffer with `valid` mapped bytes
copy_ok(valid, k) ==
  k < valid

is_full_never(inner) ==
  FALSE

\* a test for the full ring that adds without wrapping
is_full_unwrapped(inner) ==
  inner.nwrite = inner.nread + PIPESIZE

\* `self.nwrite == self.nread.wrapping_add(PIPESIZE as u32)`
is_full(inner) ==
  inner.nwrite = wrapping_add(inner.nread, PIPESIZE)

RECURSIVE try_write_loop(_, _, _, _, _, _)
try_write_loop(inner, buf, valid, off, n, i) ==
  IF i = n THEN [res |-> "Ok", r |-> n, inner |-> inner]
  ELSE IF is_full(inner) THEN [res |-> "Ok", r |-> i, inner |-> inner]
  ELSE IF ~copy_ok(valid, off + i)
       THEN [res |-> "InvalidCopyin", r |-> i, inner |-> inner]
  ELSE try_write_loop(
         [inner EXCEPT !.data[inner.nwrite % PIPESIZE] = buf[off + i + 1],
                       !.nwrite = wrapping_add(@, 1)],
         buf, valid, off, n, i + 1)

\* try_write(addr + off, n): the bytes of the caller start at offset off of buf
PipeInner_try_write(inner, killed, buf, valid, off, n) ==
  IF ~inner.readopen \/ killed
  THEN [res |-> "InvalidStatus", r |-> 0, inner |-> inner]
  ELSE try_write_loop(inner, buf, valid, off, n, 0)

RECURSIVE try_read_loop(_, _, _, _, _)
try_read_loop(inner, valid, n, i, out) ==
  IF i = n THEN [res |-> "Ok", r |-> n, inner |-> inner, out |-> out, lost |-> FALSE]
  ELSE IF inner.nread = inner.nwrite
       THEN [res |-> "Ok", r |-> i, inner |-> inner, out |-> out, lost |-> FALSE]
  ELSE LET ch == inner.data[inner.nread % PIPESIZE]
           inner1 == [inner EXCEPT !.nread = wrapping_add(@, 1)]
       IN IF ~copy_ok(valid, i)
          THEN [res |-> "Ok", r |-> i, inner |-> inner1, out |-> out, lost |-> TRUE]
          ELSE try_read_loop(inner1, valid, n, i + 1, Append(out, ch))

pipe_empty_closed_or_not(inner) ==
  inner.nread = inner.nwrite

\* `self.nread == self.nwrite && self.writeopen` (DOC: pipe-empty)
pipe_empty(inner) ==
  inner.nread = inner.nwrite /\ inner.writeopen

PipeInner_try_read(inner, killed, valid, n) ==
  IF pipe_empty(inner)
  THEN [res |-> IF killed THEN "InvalidStatus" ELSE "WaitForIO",
        r |-> 0, inner |-> inner, out |-> <<>>, lost |-> FALSE]
  ELSE try_read_loop(inner, valid, n, 0, <<>>)

\* WaitChannel::wakeup: every task asleep on the channel becomes runnable
pipe_wakeup(ts, ch) ==
  [j \in PipeTasks |->
     IF ts[j].waitchannel = ch THEN [ts[j] EXCEPT !.waitchannel = NullChan]
     ELSE ts[j]]

\* one pass of the loop of Pipe::read, from the lock to the return or the sleep
ReadPass(i, valid, n) ==
  LET t == PipeInner_try_read(pipe, pkilled[i], valid, n)
  IN /\ pipe' = t.inner
     /\ delivered' = delivered \o t.out
     /\ dropped' = (dropped \/ t.lost)
     /\ CASE t.res = "Ok" ->
               /\ tasks' = pipe_wakeup([tasks EXCEPT ![i] = NoCall], WriteChan)
               /\ pret' = PipeRet("read", i, t.r, t.out)
          [] t.res = "WaitForIO" ->
               /\ tasks' = [tasks EXCEPT ![i] =
                              [pc |-> "read", waitchannel |-> ReadChan, buf |-> <<>>,
                               valid |-> valid, n |-> n, written |-> 0]]
               /\ pret' = PipeRet("none", 0, 0, <<>>)
          [] OTHER ->
               /\ tasks' = [tasks EXCEPT ![i] = NoCall]
               /\ pret' = PipeRet("read", i, -1, <<>>)
     /\ UNCHANGED <<pkilled, accepted, issued>>

\* one pass of the loop of Pipe::write
WritePass(i, buf, valid, n, written) ==
  LET t == PipeInner_try_write(pipe, pkilled[i], buf, valid, written, n - written)
      now == written + t.r
  IN /\ pipe' = t.inner
     /\ accepted' = accepted \o SubSeq(buf, written + 1, now)
     /\ CASE t.res = "Ok" /\ now < n ->
               /\ tasks' = pipe_wakeup([tasks EXCEPT ![i] =
                              [pc |-> "write", waitchannel |-> WriteChan, buf |-> buf,
                               valid |-> valid, n |-> n, written |-> now]], ReadChan)
               /\ pret' = PipeRet("none", 0, 0, <<>>)
          [] t.res = "Ok" /\ now >= n ->
               /\ tasks' = pipe_wakeup([tasks EXCEPT ![i] = NoCall], ReadChan)
               /\ pret' = PipeRet("write", i, now, buf)
          [] t.res = "InvalidCopyin" ->
               /\ tasks' = pipe_wakeup([tasks EXCEPT ![i] = NoCall], ReadChan)
               /\ pret' = PipeRet("write", i, now, buf)
          [] OTHER ->
               /\ tasks' = [tasks EXCEPT ![i] = NoCall]
               /\ pret' = PipeRet("write", i, -1, buf)
     /\ UNCHANGED <<pkilled, delivered, dropped>>

\* read(fd, buf, n) on the read end; a killed process exits on its way back to
\* user mode and makes no further call
Pipe_read(i, valid, n) ==
  /\ tasks[i].pc = "idle"
  /\ ~pkilled[i]
  /\ pipe.readopen
  /\ ReadPass(i, valid, n)
  /\ UNCHANGED issued
  /\ UNCHANGED outsidePipe

\* sleep on read_waitchannel has returned
Pipe_read_woken(i) ==
  /\ tasks[i].pc = "read"
  /\ tasks[i].waitchannel = NullChan
  /\ ReadPass(i, tasks[i].valid, tasks[i].n)
  /\ UNCHANGED outsidePipe

\* write(fd, buf, n) on the write end; the n bytes of the buffer are new ones
Pipe_write(i, valid, n) ==
  /\ tasks[i].pc = "idle"
  /\ ~pkilled[i]
  /\ pipe.writeopen
  /\ issued + n <= MaxBytes
  /\ issued' = issued + n
  /\ WritePass(i, [k \in 1..n |-> issued + k], valid, n, 0)
  /\ UNCHANGED outsidePipe

\* sleep on write_waitchannel has returned
Pipe_write_woken(i) ==
  /\ tasks[i].pc = "write"
  /\ tasks[i].waitchannel = NullChan
  /\ WritePass(i, tasks[i].buf, tasks[i].valid, tasks[i].n, tasks[i].written)
  /\ UNCHANGED issued
  /\ UNCHANGED outsidePipe

\* a close that wakes no one
Pipe_close_wakes_nobody(writable) ==
  /\ IF writable THEN pipe.writeopen ELSE pipe.readopen
  /\ \A j \in PipeTasks : tasks[j].pc # (IF writable THEN "write" ELSE "read")
  /\ pipe' = IF writable THEN [pipe EXCEPT !.writeopen = FALSE]
             ELSE [pipe EXCEPT !.readopen = FALSE]
  /\ pret' = PipeRet("none", 0, 0, <<>>)
  /\ UNCHANGED <<tasks, pkilled, accepted, delivered, dropped, issued>>
  /\ UNCHANGED outsidePipe

\* the last descriptor of one end is closed; no task is in a call on that end
Pipe_close(writable) ==
  /\ IF writable THEN pipe.writeopen ELSE pipe.readopen
  /\ \A j \in PipeTasks : tasks[j].pc # (IF writable THEN "write" ELSE "read")
  /\ pipe' = IF writable THEN [pipe EXCEPT !.writeopen = FALSE]
             ELSE [pipe EXCEPT !.readopen = FALSE]
  /\ tasks' = pipe_wakeup(tasks, IF writable THEN ReadChan ELSE WriteChan)
  /\ pret' = PipeRet("none", 0, 0, <<>>)
  /\ UNCHANGED <<pkilled, accepted, delivered, dropped, issued>>
  /\ UNCHANGED outsidePipe

\* kill of a task: the flag is set and a sleeping task is woken
pipe_kill(i) ==
  /\ ~pkilled[i]
  /\ pkilled' = [pkilled EXCEPT ![i] = TRUE]
  /\ tasks' = [tasks EXCEPT ![i].waitchannel = NullChan]
  /\ pret' = PipeRet("none", 0, 0, <<>>)
  /\ UNCHANGED <<pipe, accepted, delivered, dropped, issued>>
  /\ UNCHANGED outsidePipe

PipeNext ==
  \/ \E i \in PipeTasks : \E valid \in Valids : \E n \in 0..MaxN : Pipe_read(i, valid, n)
  \/ \E i \in PipeTasks : Pipe_read_woken(i)
  \/ \E i \in PipeTasks : \E valid \in Valids : \E n \in 0..MaxN : Pipe_write(i, valid, n)
  \/ \E i \in PipeTasks : Pipe_write_woken(i)
  \/ \E writable \in BOOLEAN : Pipe_close(writable)
  \/ \E i \in PipeTasks : pipe_kill(i)

(***************************************************************************)
(* The write-ahead log behind Ufs::begin_tx, UfsTx::write and UfsTx::end   *)
(* (fs/ufs/mod.rs).  Every stretch that runs with the log lock held is one *)
(* step, and so is every write of one disk block; a task is a process in a *)
(* file-system call.                                                       *)
(***************************************************************************)
LogTasks == 1..NLogTasks
Blocks == 1..NBlocks
CrashTasks == 1..NCrashTasks
CrashBlocks == 1..NCrashBlocks
Data == 0..MaxData

Log_zero ==
  [outstanding |-> 0, committing |-> FALSE, bufs |-> <<>>]

NoTx ==
  [pc |-> "idle", asleep |-> FALSE, wrote |-> {}]

\* no buffer is cached: a read takes the data from the home block
Bcache_zero(home) ==
  [b \in Blocks |-> [data |-> home[b], refcnt |-> 0]]

\* a formatted disk: the header records N = 0
Disk_zero ==
  [home |-> [b \in Blocks |-> 0], slots |-> [k \in 1..LOGSIZE |-> 0], head |-> <<>>]

LogPc(phase, k) ==
  [phase |-> phase, k |-> k]

LogInit ==
  /\ log = Log_zero
  /\ txs = [i \in LogTasks |-> NoTx]
  /\ disk = Disk_zero
  /\ bcache = Bcache_zero(Disk_zero.home)
  /\ logpc = LogPc("idle", 1)
  /\ snap = [pre |-> Disk_zero.home, post |-> Disk_zero.home]
  /\ crashed = "no"

\* the machine runs: the recovery at boot is over
Up == logpc.phase # "recover"

begin_op_admits_one_too_many(lg) ==
  lg.committing \/ lg.outstanding * MAXOPBLOCKS > LOGSIZE

begin_op_waits_for_commit_only(lg) ==
  lg.committing

\* begin_op: `committing || outstanding * MAXOPBLOCKS + MAXOPBLOCKS > LOGSIZE`
begin_op_waits(lg) ==
  lg.committing \/ lg.outstanding * MAXOPBLOCKS + MAXOPBLOCKS > LOGSIZE

\* one turn of the loop of begin_op
begin_op(i) ==
  IF begin_op_waits(log)
  THEN /\ txs' = [txs EXCEPT ![i] = [pc |-> "begin_op", asleep |-> TRUE, wrote |-> {}]]
       /\ log' = log
  ELSE /\ txs' = [txs EXCEPT ![i] = [pc |-> "tx", asleep |-> FALSE, wrote |-> {}]]
       /\ log' = [log EXCEPT !.outstanding = @ + 1]

\* wakeup of the channel of the log
log_wakeup(ts) ==
  [j \in LogTasks |-> [ts[j] EXCEPT !.asleep = FALSE]]

\* log_write: a block already in the list is absorbed, a new one is appended
Log_write(lg, b) ==
  IF \E k \in 1..Len(lg.bufs) : lg.bufs[k] = b THEN lg
  ELSE [lg EXCEPT !.bufs = Append(@, b)]

\* the buffer handed to log_write holds one reference of its caller: an
\* absorbed buffer is dropped, a new one stays in the list of the log, pinned
Log_pin(lg, bc, b, v) ==
  [bc EXCEPT ![b] = [data |-> v,
                     refcnt |-> IF Log_write(lg, b) = lg THEN @.refcnt ELSE @.refcnt + 1]]

\* the blocks in the list of the log
Logged(lg) == {lg.bufs[k] : k \in 1..Len(lg.bufs)}

\* the home blocks once every buffer in the list of the log is installed
Installed(home, lg, bc) ==
  [b \in Blocks |-> IF b \in Logged(lg) THEN bc[b].data ELSE home[b]]

begin_tx(i) ==
  /\ Up
  /\ txs[i].pc = "idle"
  /\ begin_op(i)
  /\ UNCHANGED <<bcache, disk, logpc, snap, crashed>>
  /\ UNCHANGED outsideLog

begin_tx_woken(i) ==
  /\ Up
  /\ txs[i].pc = "begin_op"
  /\ ~txs[i].asleep
  /\ begin_op(i)
  /\ UNCHANGED <<bcache, disk, logpc, snap, crashed>>
  /\ UNCHANGED outsideLog

UfsTx_write_drops_the_buffer(i, b, v) ==
  /\ Up
  /\ txs[i].pc = "tx"
  /\ Cardinality(txs[i].wrote \cup {b}) <= MAXOPBLOCKS
  /\ log' = Log_write(log, b)
  /\ bcache' = [bcache EXCEPT ![b].data = v]
  /\ txs' = [txs EXCEPT ![i].wrote = @ \cup {b}]
  /\ UNCHANGED <<disk, logpc, snap, crashed>>
  /\ UNCHANGED outsideLog

\* a log_write that pins the buffer whether or not the block is in the list
UfsTx_write_pins_again(i, b, v) ==
  /\ Up
  /\ txs[i].pc = "tx"
  /\ Cardinality(txs[i].wrote \cup {b}) <= MAXOPBLOCKS
  /\ log' = Log_write(log, b)
  /\ bcache' = [bcache EXCEPT ![b] = [data |-> v, refcnt |-> @.refcnt + 1]]
  /\ txs' = [txs EXCEPT ![i].wrote = @ \cup {b}]
  /\ UNCHANGED <<disk, logpc, snap, crashed>>
  /\ UNCHANGED outsideLog

\* the caller read block b, set its data to v and hands the locked buffer
\* over; a transaction writes at most MAXOPBLOCKS distinct blocks
UfsTx_write(i, b, v) ==
  /\ Up
  /\ txs[i].pc = "tx"
  /\ Cardinality(txs[i].wrote \cup {b}) <= MAXOPBLOCKS
  /\ log' = Log_write(log, b)
  /\ bcache' = Log_pin(log, bcache, b, v)
  /\ txs' = [txs EXCEPT ![i].wrote = @ \cup {b}]
  /\ UNCHANGED <<disk, logpc, snap, crashed>>
  /\ UNCHANGED outsideLog

\* an end_op that wakes the waiters only after a commit
UfsTx_end_wakes_after_commit_only(i) ==
  /\ Up
  /\ txs[i].pc = "tx"
  /\ IF log.outstanding = 1
     THEN /\ log' = [log EXCEPT !.outstanding = 0, !.committing = TRUE]
          /\ txs' = [txs EXCEPT ![i] = [NoTx EXCEPT !.pc = "commit"]]
          /\ logpc' = LogPc("write_log", 1)
          /\ snap' = [pre |-> disk.home, post |-> Installed(disk.home, log, bcache)]
     ELSE /\ log' = [log EXCEPT !.outstanding = @ - 1]
          /\ txs' = [txs EXCEPT ![i] = NoTx]
          /\ UNCHANGED <<logpc, snap>>
  /\ UNCHANGED <<bcache, disk, crashed>>
  /\ UNCHANGED outsideLog

\* end_op: the last transaction out commits, any other wakes the waiters
UfsTx_end(i) ==
  /\ Up
  /\ txs[i].pc = "tx"
  /\ IF log.outstanding = 1
     THEN /\ log' = [log EXCEPT !.outstanding = 0, !.committing = TRUE]
          /\ txs' = [txs EXCEPT ![i] = [NoTx EXCEPT !.pc = "commit"]]
          /\ logpc' = LogPc("write_log", 1)
          /\ snap' = [pre |-> disk.home, post |-> Installed(disk.home, log, bcache)]
     ELSE /\ log' = [log EXCEPT !.outstanding = @ - 1]
          /\ txs' = log_wakeup([txs EXCEPT ![i] = NoTx])
          /\ UNCHANGED <<logpc, snap>>
  /\ UNCHANGED <<bcache, disk, crashed>>
  /\ UNCHANGED outsideLog

\* (e) of the commit and the rest of end_op: every buffer of the list is
\* unpinned, the list is empty, the waiters are woken
end_op_return(i) ==
  /\ log' = [log EXCEPT !.bufs = <<>>, !.committing = FALSE]
  /\ txs' = log_wakeup([txs EXCEPT ![i] = NoTx])
  /\ logpc' = LogPc("done", 1)
  /\ snap' = [pre |-> snap.post, post |-> snap.post]
  /\ UNCHANGED crashed
  /\ UNCHANGED outsideLog

Unpinned(lg, bc) ==
  [b \in Blocks |-> IF b \in Logged(lg) THEN [bc[b] EXCEPT !.refcnt = @ - 1] ELSE bc[b]]

\* the whole commit, from (a) to (e), and the return of end_op
commit(i) ==
  /\ txs[i].pc = "commit"
  /\ logpc = LogPc("write_log", 1)
  /\ disk' = [home |-> Installed(disk.home, log, bcache),
              slots |-> [k \in 1..LOGSIZE |->
                           IF k <= Len(log.bufs) THEN bcache[log.bufs[k]].data
                           ELSE disk.slots[k]],
              head |-> <<>>]
  /\ bcache' = Unpinned(log, bcache)
  /\ end_op_return(i)

\* (a) the cached data of the k-th logged block goes to slot k of the log
commit_write_log(i) ==
  /\ txs[i].pc = "commit"
  /\ logpc.phase = "write_log"
  /\ logpc.k <= Len(log.bufs)
  /\ disk' = [disk EXCEPT !.slots[logpc.k] = bcache[log.bufs[logpc.k]].data]
  /\ logpc' = [logpc EXCEPT !.k = @ + 1]
  /\ UNCHANGED <<log, txs, bcache, snap, crashed>>
  /\ UNCHANGED outsideLog

write_head_early(lg, pos) ==
  Len(lg.bufs) > 0

\* the header is written once every logged block is in its slot
write_head_due(lg, pos) ==
  Len(lg.bufs) > 0 /\ pos.k > Len(lg.bufs)

\* (b) the header with N and the block numbers: the commit point
commit_write_head(i) ==
  /\ txs[i].pc = "commit"
  /\ logpc.phase = "write_log"
  /\ write_head_due(log, logpc)
  /\ disk' = [disk EXCEPT !.head = log.bufs]
  /\ logpc' = LogPc("install", 1)
  /\ UNCHANGED <<log, txs, bcache, snap, crashed>>
  /\ UNCHANGED outsideLog

\* install: slot k of the log goes to the home block the header names
install_trans(d, k) ==
  [d EXCEPT !.home[d.head[k]] = d.slots[k]]

\* (c) one block is installed
commit_install(i) ==
  /\ txs[i].pc = "commit"
  /\ logpc.phase = "install"
  /\ logpc.k <= Len(disk.head)
  /\ disk' = install_trans(disk, logpc.k)
  /\ logpc' = [logpc EXCEPT !.k = @ + 1]
  /\ UNCHANGED <<log, txs, bcache, snap, crashed>>
  /\ UNCHANGED outsideLog

clear_head_never(d) ==
  d

\* the header with N = 0
clear_head(d) ==
  [d EXCEPT !.head = <<>>]

\* (d) the header is rewritten with N = 0
commit_clear_head(i) ==
  /\ txs[i].pc = "commit"
  /\ logpc.phase = "install"
  /\ logpc.k > Len(disk.head)
  /\ disk' = clear_head(disk)
  /\ logpc' = LogPc("unpin", 1)
  /\ UNCHANGED <<log, txs, bcache, snap, crashed>>
  /\ UNCHANGED outsideLog

\* (e) and the return of end_op; a commit with nothing logged writes nothing
commit_unpin(i) ==
  /\ txs[i].pc = "commit"
  /\ \/ logpc.phase = "unpin"
     \/ logpc.phase = "write_log" /\ Len(log.bufs) = 0
  /\ bcache' = Unpinned(log, bcache)
  /\ UNCHANGED disk
  /\ end_op_return(i)

\* find_or_alloc of the buffer arena reuses an entry nobody refers to
bcache_evictable(b) ==
  bcache[b].refcnt = 0

\* the buffer of block b is reused for another block: the next read of b
\* takes the data from the disk
bcache_evict(b) ==
  /\ Up
  /\ bcache_evictable(b)
  /\ bcache' = [bcache EXCEPT ![b] = [data |-> disk.home[b], refcnt |-> 0]]
  /\ UNCHANGED <<log, txs, disk, logpc, snap, crashed>>
  /\ UNCHANGED outsideLog

\* where the commit stands, as seen from the disk
CrashPoint ==
  IF ~log.committing THEN "idle"
  ELSE IF logpc.phase = "write_log" THEN "before_head"
  ELSE IF logpc.phase = "install" THEN "after_head"
  ELSE "after_clear"

\* power is lost: the memory is gone, the disk stays
crash ==
  /\ log' = Log_zero
  /\ txs' = [i \in LogTasks |-> NoTx]
  /\ bcache' = Bcache_zero(disk.home)
  /\ logpc' = LogPc("recover", 1)
  /\ crashed' = IF Up THEN CrashPoint ELSE crashed
  /\ UNCHANGED <<disk, snap>>
  /\ UNCHANGED outsideLog

recover_skips_install(d, pos) ==
  FALSE

\* recovery installs while the header names blocks not yet installed
recover_installs(d, pos) ==
  pos.k <= Len(d.head)

\* recovery at boot: one block named by the header is installed
recover_install ==
  /\ logpc.phase = "recover"
  /\ recover_installs(disk, logpc)
  /\ disk' = install_trans(disk, logpc.k)
  /\ bcache' = Bcache_zero(disk'.home)
  /\ logpc' = [logpc EXCEPT !.k = @ + 1]
  /\ UNCHANGED <<log, txs, snap, crashed>>
  /\ UNCHANGED outsideLog

\* recovery at boot: the header is rewritten with N = 0, the machine runs
recover_from_log ==
  /\ logpc.phase = "recover"
  /\ ~recover_installs(disk, logpc)
  /\ disk' = clear_head(disk)
  /\ logpc' = LogPc("idle", 1)
  /\ snap' = [pre |-> disk.home, post |-> disk.home]
  /\ crashed' = "no"
  /\ UNCHANGED <<log, txs, bcache>>
  /\ UNCHANGED outsideLog

LogNext ==
  \/ \E i \in LogTasks : begin_tx(i)
  \/ \E i \in LogTasks : begin_tx_woken(i)
  \/ \E i \in LogTasks : \E b \in Blocks : UfsTx_write(i, b, bcache[b].data)
  \/ \E i \in LogTasks : UfsTx_end(i)
  \/ \E i \in LogTasks : commit(i)

\* transactions with every write of a disk block a step, crashes, recovery
LogCrashNext ==
  \/ \E i \in CrashTasks : begin_tx(i)
  \/ \E i \in CrashTasks : begin_tx_woken(i)
  \/ \E i \in CrashTasks : \E b \in CrashBlocks : \E v \in Data : UfsTx_write(i, b, v)
  \/ \E i \in CrashTasks : UfsTx_end(i)
  \/ \E i \in CrashTasks : commit_write_log(i)
  \/ \E i \in CrashTasks : commit_write_head(i)
  \/ \E i \in CrashTasks : commit_install(i)
  \/ \E i \in CrashTasks : commit_clear_head(i)
  \/ \E i \in CrashTasks : commit_unpin(i)
  \/ \E b \in CrashBlocks : bcache_evict(b)
  \/ crash
  \/ recover_install
  \/ recover_from_log

(***************************************************************************)
(* Spinlocks and the interrupt enable of each CPU (spec, lock family):     *)
(* push_off before the test-and-set of acquire, pop_off after the release. *)
(* A CPU is in user mode, in a system call, or in an interrupt handler.    *)
(***************************************************************************)
Harts == 1..NCPU
Spinlocks == 1..NSpinlocks

Hart_new ==
  [mode |-> "user", noff |-> 0, intena |-> FALSE, intr |-> TRUE, wants |-> 0,
   saved |-> "user"]

IntrInit ==
  /\ hart = [c \in Harts |-> Hart_new]
  /\ locked = [l \in Spinlocks |-> 0]

\* push_off: interrupts go off; the first push keeps what the enable was
push_off(h) ==
  [h EXCEPT !.intena = IF h.noff = 0 THEN h.intr ELSE @,
            !.intr = FALSE,
            !.noff = @ + 1]

pop_off_restores_at_once(h) ==
  [h EXCEPT !.noff = @ - 1, !.intr = h.intena]

\* pop_off: the pop that brings the counter to 0 restores the enable
pop_off(h) ==
  [h EXCEPT !.noff = @ - 1,
            !.intr = IF h.noff - 1 = 0 /\ h.intena THEN TRUE ELSE @]

holding(l, c) == locked[l] = c

\* a system call: the CPU enters the kernel with interrupts enabled
syscall_enter(c) ==
  /\ hart[c].mode = "user"
  /\ hart' = [hart EXCEPT ![c].mode = "kernel"]
  /\ UNCHANGED locked
  /\ UNCHANGED outsideIntr

\* the kernel path has released every lock it acquired and returns
return_to_user(c) ==
  /\ hart[c].mode = "kernel"
  /\ hart[c].wants = 0
  /\ \A l \in Spinlocks : ~holding(l, c)
  /\ hart' = [hart EXCEPT ![c].mode = "user"]
  /\ UNCHANGED locked
  /\ UNCHANGED outsideIntr

\* an interrupt is taken only while the enable is set; the hardware clears
\* the enable for the handler
interrupt(c) ==
  /\ hart[c].intr
  /\ hart[c].mode # "handler"
  /\ hart' = [hart EXCEPT ![c].saved = hart[c].mode,
                          ![c].mode = "handler",
                          ![c].intr = FALSE]
  /\ UNCHANGED locked
  /\ UNCHANGED outsideIntr

\* the handler returns to what it interrupted, the hardware sets the enable
interrupt_return(c) ==
  /\ hart[c].mode = "handler"
  /\ hart[c].wants = 0
  /\ \A l \in Spinlocks : ~holding(l, c)
  /\ hart' = [hart EXCEPT ![c].mode = hart[c].saved, ![c].intr = TRUE]
  /\ UNCHANGED locked
  /\ UNCHANGED outsideIntr

\* acquire, up to the busy wait: push_off; a lock the CPU holds already is
\* not acquired again
Spinlock_acquire(c, l) ==
  /\ hart[c].mode # "user"
  /\ hart[c].wants = 0
  /\ ~holding(l, c)
  /\ hart' = [hart EXCEPT ![c] = [push_off(hart[c]) EXCEPT !.wants = l]]
  /\ UNCHANGED locked
  /\ UNCHANGED outsideIntr

\* acquire, the test-and-set that finds the lock free
Spinlock_acquired(c) ==
  /\ hart[c].wants # 0
  /\ locked[hart[c].wants] = 0
  /\ locked' = [locked EXCEPT ![hart[c].wants] = c]
  /\ hart' = [hart EXCEPT ![c].wants = 0]
  /\ UNCHANGED outsideIntr

\* release: the lock is free, then pop_off
Spinlock_release(c, l) ==
  /\ holding(l, c)
  /\ hart[c].wants = 0
  /\ locked' = [locked EXCEPT ![l] = 0]
  /\ hart' = [hart EXCEPT ![c] = pop_off(hart[c])]
  /\ UNCHANGED outsideIntr

IntrNext ==
  \/ \E c \in Harts : syscall_enter(c)
  \/ \E c \in Harts : return_to_user(c)
  \/ \E c \in Harts : interrupt(c)
  \/ \E c \in Harts : interrupt_return(c)
  \/ \E c \in Harts : \E l \in Spinlocks : Spinlock_acquire(c, l)
  \/ \E c \in Harts : Spinlock_acquired(c)
  \/ \E c \in Harts : \E l \in Spinlocks : Spinlock_release(c, l)

(***************************************************************************)
(* The sleep lock of a buffer or an inode (spec, lock family): a locked    *)
(* flag under a spinlock, and a wait channel.  Every stretch that runs     *)
(* with the spinlock held is one step.                                     *)
(***************************************************************************)
SleepTasks == 1..NSleepTasks
SleepLocks == 1..NSleepLocks

Sleeplock_new ==
  [locked |-> FALSE, pid |-> 0]

SleepInit ==
  /\ sleeplocks = [l \in SleepLocks |-> Sleeplock_new]
  /\ sleepers = [i \in SleepTasks |-> [pc |-> "out", lk |-> 0]]

acquire_waits_never(lk) ==
  FALSE

\* the loop of acquire: `while locked` the task sleeps on the channel
acquire_waits(lk) ==
  lk.locked

\* one turn of the loop of acquire, the spinlock held: the task sleeps on the
\* channel of the lock, or takes the lock
Sleeplock_turn(i, l) ==
  IF acquire_waits(sleeplocks[l])
  THEN /\ sleepers' = [sleepers EXCEPT ![i] = [pc |-> "asleep", lk |-> l]]
       /\ UNCHANGED sleeplocks
  ELSE /\ sleepers' = [sleepers EXCEPT ![i] = [pc |-> "in", lk |-> l]]
       /\ sleeplocks' = [sleeplocks EXCEPT ![l] = [locked |-> TRUE, pid |-> i]]

Sleeplock_acquire(i, l) ==
  /\ sleepers[i].pc = "out"
  /\ Sleeplock_turn(i, l)
  /\ UNCHANGED outsideSleep

\* the task was woken and runs again: the next turn of the loop
Sleeplock_acquire_woken(i) ==
  /\ sleepers[i].pc = "woken"
  /\ Sleeplock_turn(i, sleepers[i].lk)
  /\ UNCHANGED outsideSleep

\* release: the flag is cleared and every task asleep on the channel of the
\* lock is woken
Sleeplock_release(i) ==
  /\ sleepers[i].pc = "in"
  /\ sleeplocks' = [sleeplocks EXCEPT ![sleepers[i].lk] = Sleeplock_new]
  /\ sleepers' = [j \in SleepTasks |->
                    IF j = i THEN [pc |-> "out", lk |-> 0]
                    ELSE IF sleepers[j].pc = "asleep" /\ sleepers[j].lk = sleepers[i].lk
                         THEN [sleepers[j] EXCEPT !.pc = "woken"]
                         ELSE sleepers[j]]
  /\ UNCHANGED outsideSleep

SleepNext ==
  \/ \E i \in SleepTasks : \E l \in SleepLocks : Sleeplock_acquire(i, l)
  \/ \E i \in SleepTasks : Sleeplock_acquire_woken(i)
  \/ \E i \in SleepTasks : Sleeplock_release(i)

(***************************************************************************)
(* Cells that borrow the raw lock of a Lock: RemoteLock (remotelock.rs)    *)
(* and LockProtected (lock_protected.rs).  Every lock has one cell of each *)
(* kind created with it; a cell is named by its kind and that lock.  A     *)
(* reference lives as long as the borrow of the guard it was got with.     *)
(***************************************************************************)
RemoteTasks == 1..NRemoteTasks
RawLocks == 1..NRawLocks

CellRef(i, kind, l, g) ==
  [task |-> i, kind |-> kind, lock |-> l, guard |-> g]

RemoteInit ==
  /\ rawlocks = [l \in RawLocks |-> 0]
  /\ cellrefs = {}
  /\ cellret = "none"

\* Lock::lock: the task gets the guard of lock g
Lock_lock(i, g) ==
  /\ cellret # "panic"
  /\ rawlocks[g] = 0
  /\ rawlocks' = [rawlocks EXCEPT ![g] = i]
  /\ cellret' = "guard"
  /\ UNCHANGED cellrefs
  /\ UNCHANGED outsideRemote

\* the guard is dropped; the references got with it have ended
Guard_drop(i, g) ==
  /\ cellret # "panic"
  /\ rawlocks[g] = i
  /\ rawlocks' = [rawlocks EXCEPT ![g] = 0]
  /\ cellrefs' = {r \in cellrefs : ~(r.task = i /\ r.guard = g)}
  /\ cellret' = "drop"
  /\ UNCHANGED outsideRemote

\* a reference borrows the guard mutably: one reference per guard at a time
guard_borrowed(i, g) ==
  \E r \in cellrefs : r.task = i /\ r.guard = g

\* the reference got with a guard ends
CellRef_drop(r) ==
  /\ cellret # "panic"
  /\ r \in cellrefs
  /\ cellrefs' = cellrefs \ {r}
  /\ cellret' = "drop"
  /\ UNCHANGED rawlocks
  /\ UNCHANGED outsideRemote

\* RemoteLock::get_pin_mut_unchecked and get_mut_unchecked: `_guard` is not
\* looked at
RemoteLock_get_mut_unchecked(i, l, g) ==
  /\ cellret # "panic"
  /\ rawlocks[g] = i
  /\ ~guard_borrowed(i, g)
  /\ cellrefs' = cellrefs \cup {CellRef(i, "RemoteLock", l, g)}
  /\ cellret' = "ref"
  /\ UNCHANGED rawlocks
  /\ UNCHANGED outsideRemote

\* LockProtected::get_pin_mut: assert!(ptr::eq(self.lock, guard.lock))
LockProtected_get_pin_mut(i, l, g) ==
  /\ cellret # "panic"
  /\ rawlocks[g] = i
  /\ ~guard_borrowed(i, g)
  /\ IF l = g
     THEN /\ cellrefs' = cellrefs \cup {CellRef(i, "LockProtected", l, g)}
          /\ cellret' = "ref"
     ELSE /\ cellret' = "panic"
          /\ UNCHANGED cellrefs
  /\ UNCHANGED rawlocks
  /\ UNCHANGED outsideRemote

RemoteNext ==
  \/ \E i \in RemoteTasks : \E g \in RawLocks : Lock_lock(i, g)
  \/ \E i \in RemoteTasks : \E g \in RawLocks : Guard_drop(i, g)
  \/ \E r \in cellrefs : CellRef_drop(r)
  \/ \E i \in RemoteTasks : \E l, g \in RawLocks : RemoteLock_get_mut_unchecked(i, l, g)
  \/ \E i \in RemoteTasks : \E l, g \in RawLocks : LockProtected_get_pin_mut(i, l, g)

(***************************************************************************)
(* Ufs::create, Ufs::link and Ufs::unlink (fs/ufs/mod.rs) on the entries   *)
(* of one directory.  A call runs inside one transaction with the inodes   *)
(* it changes locked, and is one step.                                     *)
(***************************************************************************)
Inums == 1..NInodes
Names == 1..NNames
\* the kernel runs with one device
RootDev == 1

Inode_free ==
  [typ |-> "None", nlink |-> 0, dev |-> RootDev, empty |-> TRUE]

FsRet(op, k, name, ok, before) ==
  [op |-> op, inum |-> k, name |-> name, ok |-> ok, before |-> before]

InodeInit ==
  /\ itable = [k \in Inums |-> Inode_free]
  /\ rootdir = [nlink |-> 1, ents |-> [n \in Names |-> 0]]
  /\ fsret = FsRet("none", 0, 0, TRUE, 0)

\* dirlookup: the inode the name stands for, 0 if there is no such entry
dirlookup(dp, name) == dp.ents[name]

\* dirlink: Err if the name is present, else the entry is written
dirlink_ok(dp, name) == dirlookup(dp, name) = 0

dirlink(dp, name, k) ==
  [dp EXCEPT !.ents[name] = k]

\* create of a name that is not there: an inode is allocated with nlink 1;
\* a directory adds one to the nlink of its parent for ".."
Ufs_create(name, typ, k) ==
  /\ fsret.op # "panic"
  /\ dirlookup(rootdir, name) = 0
  /\ itable[k].typ = "None"
  /\ \A j \in Inums : itable[j].typ = "None" => k <= j
  /\ itable' = [itable EXCEPT ![k] = [typ |-> typ, nlink |-> 1, dev |-> RootDev,
                                      empty |-> TRUE]]
  /\ rootdir' = dirlink([rootdir EXCEPT !.nlink = IF typ = "Dir" THEN @ + 1 ELSE @],
                        name, k)
  /\ fsret' = FsRet("create", k, name, TRUE, 0)
  /\ UNCHANGED outsideInode

\* a file is put into a directory that was empty, or the last one taken out
dir_fill(k, empty) ==
  /\ fsret.op # "panic"
  /\ itable[k].typ = "Dir"
  /\ itable[k].empty # empty
  /\ itable' = [itable EXCEPT ![k].empty = empty]
  /\ fsret' = FsRet("dir", k, 0, TRUE, 0)
  /\ UNCHANGED rootdir
  /\ UNCHANGED outsideInode

dec_nlink_not(ino) ==
  ino

\* `nlink -= 1`
dec_nlink(ino) ==
  [ino EXCEPT !.nlink = @ - 1]

\* `nlink += 1`
inc_nlink(ino) ==
  [ino EXCEPT !.nlink = @ + 1]

\* a link that tests for a directory after the increment, and returns
Ufs_link_fails_late(k, name) ==
  /\ fsret.op # "panic"
  /\ itable[k].typ # "None"
  /\ \E found \in BOOLEAN :
       IF itable[k].typ = "Dir"
       THEN /\ itable' = [itable EXCEPT ![k] = inc_nlink(itable[k])]
            /\ fsret' = FsRet("link", k, name, FALSE, itable[k].nlink)
            /\ UNCHANGED rootdir
       ELSE IF ~found \/ RootDev # itable[k].dev \/ ~dirlink_ok(rootdir, name)
       THEN /\ itable' = [itable EXCEPT ![k] = dec_nlink(inc_nlink(itable[k]))]
            /\ fsret' = FsRet("link", k, name, FALSE, itable[k].nlink)
            /\ UNCHANGED rootdir
       ELSE /\ itable' = [itable EXCEPT ![k] = inc_nlink(itable[k])]
            /\ rootdir' = dirlink(rootdir, name, k)
            /\ fsret' = FsRet("link", k, name, TRUE, itable[k].nlink)
  /\ UNCHANGED outsideInode

\* link: Err for a directory; nlink is incremented, and decremented again
\* if nameiparent does not find the directory of the path (found = FALSE),
\* the directory is on another device or holds the name already
Ufs_link(k, name) ==
  /\ fsret.op # "panic"
  /\ itable[k].typ # "None"
  /\ \E found \in BOOLEAN :
       IF itable[k].typ = "Dir"
       THEN /\ fsret' = FsRet("link", k, name, FALSE, itable[k].nlink)
            /\ UNCHANGED <<itable, rootdir>>
       ELSE IF ~found \/ RootDev # itable[k].dev \/ ~dirlink_ok(rootdir, name)
       THEN /\ itable' = [itable EXCEPT ![k] = dec_nlink(inc_nlink(itable[k]))]
            /\ fsret' = FsRet("link", k, name, FALSE, itable[k].nlink)
            /\ UNCHANGED rootdir
       ELSE /\ itable' = [itable EXCEPT ![k] = inc_nlink(itable[k])]
            /\ rootdir' = dirlink(rootdir, name, k)
            /\ fsret' = FsRet("link", k, name, TRUE, itable[k].nlink)
  /\ UNCHANGED outsideInode

\* unlink: Err if the name is absent or names a directory that is not empty;
\* the entry is cleared and nlink decremented (`assert!(nlink >= 1)`)
Ufs_unlink(name) ==
  /\ fsret.op # "panic"
  /\ LET k == dirlookup(rootdir, name)
     IN IF k = 0
        THEN /\ fsret' = FsRet("unlink", 0, name, FALSE, 0)
             /\ UNCHANGED <<itable, rootdir>>
        ELSE IF itable[k].nlink < 1
        THEN /\ fsret' = FsRet("panic", k, name, FALSE, itable[k].nlink)
             /\ UNCHANGED <<itable, rootdir>>
        ELSE IF itable[k].typ = "Dir" /\ ~itable[k].empty
        THEN /\ fsret' = FsRet("unlink", k, name, FALSE, itable[k].nlink)
             /\ UNCHANGED <<itable, rootdir>>
        ELSE /\ rootdir' = [rootdir EXCEPT
                              !.ents[name] = 0,
                              !.nlink = IF itable[k].typ = "Dir" THEN @ - 1 ELSE @]
             /\ itable' = [itable EXCEPT ![k] = dec_nlink(itable[k])]
             /\ fsret' = FsRet("unlink", k, name, TRUE, itable[k].nlink)
  /\ UNCHANGED outsideInode

\* the last reference to an inode with nlink 0 is dropped: the inode is free
Inode_finalize(k) ==
  /\ fsret.op # "panic"
  /\ itable[k].typ # "None"
  /\ itable[k].nlink = 0
  /\ itable' = [itable EXCEPT ![k] = Inode_free]
  /\ fsret' = FsRet("free", k, 0, TRUE, 0)
  /\ UNCHANGED rootdir
  /\ UNCHANGED outsideInode

InodeNext ==
  \/ \E name \in Names : \E typ \in {"File", "Dir"} : \E k \in Inums :
       Ufs_create(name, typ, k)
  \/ \E k \in Inums : \E empty \in BOOLEAN : dir_fill(k, empty)
  \/ \E k \in Inums : \E name \in Names : Ufs_link(k, name)
  \/ \E name \in Names : Ufs_unlink(name)
  \/ \E k \in Inums : Inode_finalize(k)

(***************************************************************************)
(* UfsTx::balloc, UfsTx::bzero and UfsTx::bfree (fs/ufs/mod.rs): the       *)
(* allocation bitmap, a bit per disk block, kept in bytes of bitmap        *)
(* blocks of BPB bits each.  Blocks below NMeta hold the boot block, the   *)
(* superblock, the log, the inodes and the bitmap: mkfs marks them in use. *)
(***************************************************************************)
BPB == 8 * BmapBytes
FsBlocks == 0..(FsSize - 1)
BmapBlocks == 0..((FsSize - 1) \div BPB)

\* bit k of a byte
Bit(byte, k) == (byte \div 2^k) % 2

\* the mask `1 << (bi % 8)` and the byte `bi / 8` of a bit of a bitmap block
Mask(bi) == 2^(bi % 8)

\* `data[bi / 8] & m`
Masked(data, bi) == Bit(data[bi \div 8], bi % 8) * Mask(bi)

\* the byte whose bits are those of the set
RECURSIVE ByteOf(_)
ByteOf(bits) ==
  IF bits = {} THEN 0
  ELSE LET k == CHOOSE x \in bits : TRUE IN 2^k + ByteOf(bits \ {k})

\* the bitmap in which exactly the blocks of the set are in use
BmapOf(used) ==
  [j \in BmapBlocks |->
     [n \in 0..(BmapBytes - 1) |->
        ByteOf({k \in 0..7 : j * BPB + n * 8 + k \in used})]]

BRet(op, b, before) ==
  [op |-> op, b |-> b, before |-> before]

BallocInit ==
  /\ bmap = BmapOf(0..(NMeta - 1))
  /\ blockdata = [b \in FsBlocks |-> 0]
  /\ bret = BRet("none", 0, bmap)

Min(a, b) == IF a < b THEN a ELSE b

\* the loops of balloc from bit bi of the bitmap block of b on: the first
\* block whose bit is clear, FsSize if there is none
RECURSIVE balloc_scan(_, _, _)
balloc_scan(bm, b, bi) ==
  IF b >= FsSize THEN FsSize
  ELSE IF bi >= Min(BPB, FsSize - b) THEN balloc_scan(bm, b + BPB, 0)
  ELSE IF Masked(bm[b \div BPB], bi) = 0 THEN b + bi
  ELSE balloc_scan(bm, b, bi + 1)

\* `data[bi / 8] |= m`
set_bit(data, bi) ==
  [data EXCEPT ![bi \div 8] = IF Masked(data, bi) = 0 THEN @ + Mask(bi) ELSE @]

\* `data[bi / 8] &= !m`
clear_bit(data, bi) ==
  [data EXCEPT ![bi \div 8] = IF Masked(data, bi) # 0 THEN @ - Mask(bi) ELSE @]

bzero_not(data, bno) ==
  data

\* bzero: the buffer of the block is filled with 0 and written
bzero(data, bno) ==
  [data EXCEPT ![bno] = 0]

\* balloc: the first free block is marked in use, zeroed and returned;
\* panic!("balloc: out of blocks") if there is none
UfsTx_balloc ==
  /\ bret.op # "panic"
  /\ LET bno == balloc_scan(bmap, 0, 0)
     IN IF bno = FsSize
        THEN /\ bret' = BRet("panic", bno, bmap)
             /\ UNCHANGED <<bmap, blockdata>>
        ELSE /\ bmap' = [bmap EXCEPT ![bno \div BPB] = set_bit(@, bno % BPB)]
             /\ blockdata' = bzero(blockdata, bno)
             /\ bret' = BRet("balloc", bno, bmap)
  /\ UNCHANGED outsideBalloc

\* bfree: assert_ne!(data[bi / 8] & m, 0, "freeing free block"), the bit is
\* cleared
UfsTx_bfree(b) ==
  /\ bret.op # "panic"
  /\ IF Masked(bmap[b \div BPB], b % BPB) = 0
     THEN /\ bret' = BRet("panic", b, bmap)
          /\ UNCHANGED <<bmap, blockdata>>
     ELSE /\ bmap' = [bmap EXCEPT ![b \div BPB] = clear_bit(@, b % BPB)]
          /\ bret' = BRet("bfree", b, bmap)
          /\ UNCHANGED blockdata
  /\ UNCHANGED outsideBalloc

\* the owner of an allocated block writes data into it
block_write(b, v) ==
  /\ bret.op # "panic"
  /\ Masked(bmap[b \div BPB], b % BPB) # 0
  /\ blockdata[b] # v
  /\ blockdata' = [blockdata EXCEPT ![b] = v]
  /\ bret' = BRet("write", b, bmap)
  /\ UNCHANGED bmap
  /\ UNCHANGED outsideBalloc

BallocNext ==
  \/ UfsTx_balloc
  \/ \E b \in NMeta..(FsSize - 1) : UfsTx_bfree(b)
  \/ \E b \in NMeta..(FsSize - 1) : \E v \in Data : block_write(b, v)

(***************************************************************************)
(* RcCell (util/rc_cell.rs) under tasks that run at the same time, every   *)
(* atomic operation on refcnt one step; and one StaticRefCell              *)
(* (static_refcell.rs), which is single-threaded: every call is one step.  *)
(***************************************************************************)
CellTasks == 1..NCellTasks

RcTask_new ==
  [pc |-> "idle", r |-> 0, refs |-> 0, muts |-> 0]

CellInit ==
  /\ rcell = 0
  /\ rctasks = [i \in CellTasks |-> RcTask_new]
  /\ scell = StaticRefCell_new
  /\ sheld = [refs |-> 0, muts |-> 0]

\* usize arithmetic wraps at usize::MAX (AtomicUsize::fetch_add, fetch_sub)
fetch_add(c) ==
  IF c = BORROWED_MUT THEN 0 ELSE c + 1

fetch_sub(c) ==
  IF c = 0 THEN BORROWED_MUT ELSE c - 1

\* a test that lets every borrow through
can_borrow_always(r) ==
  TRUE

\* RcCell::try_borrow, the test of the loaded counter
can_borrow(r) ==
  r < BORROWED_MUT - 1

\* RcCell::try_borrow, `let r = refcnt.load(SeqCst)` and the test: at the
\* entry of the call or after a compare_exchange that failed
RcCell_try_borrow(i) ==
  /\ rctasks[i].pc \in {"idle", "continue"}
  /\ rctasks[i].pc = "idle" => rctasks[i].refs < MaxRefs
  /\ rctasks' = [rctasks EXCEPT ![i] = IF can_borrow(rcell)
                                       THEN [@ EXCEPT !.pc = "cas", !.r = rcell]
                                       ELSE [@ EXCEPT !.pc = "idle", !.r = 0]]
  /\ UNCHANGED <<rcell, scell, sheld, outsideCell>>

\* RcCell::try_borrow, refcnt.compare_exchange(r, r + 1): Some(Ref) or continue
RcCell_try_borrow_cas(i) ==
  /\ rctasks[i].pc = "cas"
  /\ IF rcell = rctasks[i].r
     THEN /\ rcell' = fetch_add(rctasks[i].r)
          /\ rctasks' = [rctasks EXCEPT ![i].pc = "idle", ![i].r = 0, ![i].refs = @ + 1]
     ELSE /\ rcell' = rcell
          /\ rctasks' = [rctasks EXCEPT ![i].pc = "continue"]
  /\ UNCHANGED <<scell, sheld, outsideCell>>

\* RcCell::try_borrow_mut: compare_exchange(0, BORROWED_MUT), None when it fails
RcCell_try_borrow_mut(i) ==
  /\ rctasks[i].pc = "idle"
  /\ rctasks[i].muts = 0
  /\ IF rcell = 0
     THEN /\ rcell' = BORROWED_MUT
          /\ rctasks' = [rctasks EXCEPT ![i].muts = 1]
     ELSE UNCHANGED <<rcell, rctasks>>
  /\ UNCHANGED <<scell, sheld, outsideCell>>

\* Ref::into_mut: compare_exchange(1, BORROWED_MUT); Err(self) keeps the Ref
RcRef_into_mut(i) ==
  /\ rctasks[i].pc = "idle"
  /\ rctasks[i].refs >= 1
  /\ IF rcell = 1
     THEN /\ rcell' = BORROWED_MUT
          /\ rctasks' = [rctasks EXCEPT ![i].refs = @ - 1, ![i].muts = 1]
     ELSE UNCHANGED <<rcell, rctasks>>
  /\ UNCHANGED <<scell, sheld, outsideCell>>

\* Clone for Ref: fetch_add(1)
RcRef_clone(i) ==
  /\ rctasks[i].pc = "idle"
  /\ rctasks[i].refs >= 1
  /\ rctasks[i].refs < MaxRefs
  /\ rcell' = fetch_add(rcell)
  /\ rctasks' = [rctasks EXCEPT ![i].refs = @ + 1]
  /\ UNCHANGED <<scell, sheld, outsideCell>>

\* Drop for Ref: fetch_sub(1)
RcRef_drop(i) ==
  /\ rctasks[i].pc = "idle"
  /\ rctasks[i].refs >= 1
  /\ rcell' = fetch_sub(rcell)
  /\ rctasks' = [rctasks EXCEPT ![i].refs = @ - 1]
  /\ UNCHANGED <<scell, sheld, outsideCell>>

\* Drop for RefMut: store(0)
RcRefMut_drop(i) ==
  /\ rctasks[i].pc = "idle"
  /\ rctasks[i].muts = 1
  /\ rcell' = 0
  /\ rctasks' = [rctasks EXCEPT ![i].muts = 0]
  /\ UNCHANGED <<scell, sheld, outsideCell>>

\* StaticRefCell::try_borrow
Static_try_borrow ==
  /\ sheld.refs < MaxRefs
  /\ LET o == try_borrow(scell)
     IN IF o.some
        THEN /\ scell' = o.cell
             /\ sheld' = [sheld EXCEPT !.refs = @ + 1]
        ELSE UNCHANGED <<scell, sheld>>
  /\ UNCHANGED <<rcell, rctasks, outsideCell>>

\* StaticRefCell::try_borrow_mut
Static_try_borrow_mut ==
  /\ LET o == try_borrow_mut(scell)
     IN IF o.some
        THEN /\ scell' = o.cell
             /\ sheld' = [sheld EXCEPT !.muts = @ + 1]
        ELSE UNCHANGED <<scell, sheld>>
  /\ UNCHANGED <<rcell, rctasks, outsideCell>>

\* Clone for Ref
Static_clone ==
  /\ sheld.refs >= 1
  /\ sheld.refs < MaxRefs
  /\ scell' = Ref_clone(scell)
  /\ sheld' = [sheld EXCEPT !.refs = @ + 1]
  /\ UNCHANGED <<rcell, rctasks, outsideCell>>

\* Drop for Ref
Static_drop_ref ==
  /\ sheld.refs >= 1
  /\ scell' = Ref_drop(scell)
  /\ sheld' = [sheld EXCEPT !.refs = @ - 1]
  /\ UNCHANGED <<rcell, rctasks, outsideCell>>

\* Drop for RefMut
Static_drop_mut ==
  /\ sheld.muts >= 1
  /\ scell' = RefMut_drop(scell)
  /\ sheld' = [sheld EXCEPT !.muts = @ - 1]
  /\ UNCHANGED <<rcell, rctasks, outsideCell>>

\* From<RefMut<T>> for Ref<T>: the RefMut is consumed
Static_downgrade ==
  /\ sheld.muts >= 1
  /\ scell' = Ref_from(scell)
  /\ sheld' = [refs |-> sheld.refs + 1, muts |-> sheld.muts - 1]
  /\ UNCHANGED <<rcell, rctasks, outsideCell>>

\* TryFrom<Ref<T>> for RefMut<T>: the Ref is consumed; on Err(()) it is dropped
\* at the end of the call
Static_promote ==
  /\ sheld.refs >= 1
  /\ LET o == RefMut_try_from(scell)
     IN IF o.some
        THEN /\ scell' = o.cell
             /\ sheld' = [refs |-> sheld.refs - 1, muts |-> sheld.muts + 1]
        ELSE /\ scell' = Ref_drop(scell)
             /\ sheld' = [sheld EXCEPT !.refs = @ - 1]
  /\ UNCHANGED <<rcell, rctasks, outsideCell>>

CellNext ==
  \/ \E i \in CellTasks : RcCell_try_borrow(i)
  \/ \E i \in CellTasks : RcCell_try_borrow_cas(i)
  \/ \E i \in CellTasks : RcCell_try_borrow_mut(i)
  \/ \E i \in CellTasks : RcRef_into_mut(i)
  \/ \E i \in CellTasks : RcRef_clone(i)
  \/ \E i \in CellTasks : RcRef_drop(i)
  \/ \E i \in CellTasks : RcRefMut_drop(i)
  \/ Static_try_borrow
  \/ Static_try_borrow_mut
  \/ Static_clone
  \/ Static_drop_ref
  \/ Static_drop_mut
  \/ Static_downgrade
  \/ Static_promote

(***************************************************************************)
(* Buf handles that processes hold on their own (a read of a block), next  *)
(* to the references the log holds on the buffers it has pinned.           *)
(***************************************************************************)
BufInit ==
  bufrefs = [b \in Blocks |-> 0]

\* a process gets the buffer of block b from the cache: one more reference
Bcache_get(b) ==
  /\ Up
  /\ bufrefs[b] < MaxBufRefs
  /\ bcache' = [bcache EXCEPT ![b].refcnt = @ + 1]
  /\ bufrefs' = [bufrefs EXCEPT ![b] = @ + 1]
  /\ UNCHANGED <<log, txs, disk, logpc, snap, crashed>>
  /\ UNCHANGED <<arenaVars, procVars, pipeVars, intrVars, sleepVars, remoteVars,
                 inodeVars, ballocVars, cellVars, pageVars>>

\* the process drops its Buf
Buf_drop(b) ==
  /\ Up
  /\ bufrefs[b] > 0
  /\ bcache' = [bcache EXCEPT ![b].refcnt = @ - 1]
  /\ bufrefs' = [bufrefs EXCEPT ![b] = @ - 1]
  /\ UNCHANGED <<log, txs, disk, logpc, snap, crashed>>
  /\ UNCHANGED <<arenaVars, procVars, pipeVars, intrVars, sleepVars, remoteVars,
                 inodeVars, ballocVars, cellVars, pageVars>>

\* transactions of CrashTasks on CrashBlocks next to processes that hold
\* buffers of their own
LogPinNext ==
  \/ \E i \in CrashTasks : begin_tx(i)
  \/ \E i \in CrashTasks : begin_tx_woken(i)
  \/ \E i \in CrashTasks : \E b \in CrashBlocks : UfsTx_write(i, b, bcache[b].data)
  \/ \E i \in CrashTasks : UfsTx_end(i)
  \/ \E i \in CrashTasks : commit(i)
  \/ \E b \in CrashBlocks : Bcache_get(b)
  \/ \E b \in CrashBlocks : Buf_drop(b)

(***************************************************************************)
(* AllocatedPipe::close (pipe.rs): the close of one end through its file,  *)
(* and the page of the pipe.                                               *)
(***************************************************************************)
PageInit ==
  pagefrees = 0

\* what Pipe::close returns when it stops at the first closed end
Pipe_close_ret_either(inner) ==
  ~inner.readopen \/ ~inner.writeopen

\* `!inner.readopen && !inner.writeopen`, the value Pipe::close returns
Pipe_close_ret(inner) ==
  ~inner.readopen /\ ~inner.writeopen

\* the file of one end is closed: Pipe::close, and the page is freed if it
\* says so
AllocatedPipe_close(writable) ==
  /\ IF writable THEN pipe.writeopen ELSE pipe.readopen
  /\ \A j \in PipeTasks : tasks[j].pc # (IF writable THEN "write" ELSE "read")
  /\ pipe' = IF writable THEN [pipe EXCEPT !.writeopen = FALSE]
             ELSE [pipe EXCEPT !.readopen = FALSE]
  /\ tasks' = pipe_wakeup(tasks, IF writable THEN ReadChan ELSE WriteChan)
  /\ pagefrees' = IF Pipe_close_ret(pipe') THEN pagefrees + 1 ELSE pagefrees
  /\ pret' = PipeRet("none", 0, 0, <<>>)
  /\ UNCHANGED <<pkilled, accepted, delivered, dropped, issued>>
  /\ UNCHANGED <<arenaVars, procVars, logVars, intrVars, sleepVars, remoteVars,
                 inodeVars, ballocVars, cellVars, bufVars>>

PipePageNext ==
  \/ \E i \in PipeTasks : \E valid \in Valids : \E n \in 0..MaxN : Pipe_read(i, valid, n)
  \/ \E i \in PipeTasks : Pipe_read_woken(i)
  \/ \E i \in PipeTasks : \E valid \in Valids : \E n \in 0..MaxN : Pipe_write(i, valid, n)
  \/ \E i \in PipeTasks : Pipe_write_woken(i)
  \/ \E writable \in BOOLEAN : AllocatedPipe_close(writable)
  \/ \E i \in PipeTasks : pipe_kill(i)

Init ==
  ArenaInit /\ ProcsInit /\ PipeInit /\ LogInit /\ IntrInit /\ SleepInit /\ RemoteInit /\ InodeInit /\ BallocInit /\ CellInit /\ BufInit /\ PageInit

\* an arena whose clients look entries up by key (inodes, buffers)
SpecArenaKeyed ==
  Init /\ [][ArenaKeyedNext]_vars

\* an arena used through every operation of the trait
SpecArena ==
  Init /\ [][ArenaNext]_vars

ProcInit ==
  Init /\ flavor = "array"

\* the process system, the arena left as constructed
SpecProc ==
  ProcInit /\ [][ProcNext]_vars

\* one pipe and the tasks that read, write and close it
SpecPipe ==
  ProcInit /\ [][PipeNext]_vars

\* the log and the tasks that run transactions on it
SpecLog ==
  ProcInit /\ [][LogNext]_vars

\* the log on a machine that may lose power at any step
SpecLogCrash ==
  ProcInit /\ [][LogCrashNext]_vars

(***************************************************************************)
(* Claims about the arena.                                                 *)
(***************************************************************************)
Borrowed(s) ==
  RefCount(entries[s]) > 0

\* C1: under any interleaving of find_or_alloc, dup and dealloc, no two slots
\* with refcount > 0 hold the same logical key (a slot under finalization
\* counts no handle: its last Ref has been promoted to the RefMut).
NoTwoBorrowedSlotsShareKey ==
  \A a \in Slots : \A b \in Slots :
    (a # b /\ Borrowed(a) /\ Borrowed(b)) => entries[a].data # entries[b].data

\* a lookup of a borrowed key handed out a second handle to its slot while
\* another slot is borrowed too
C1Witness ==
  /\ ret.op = "find_or_alloc" /\ ret.init = 0 /\ ret.slot # 0
  /\ held[ret.slot] >= 2
  /\ \E b \in Slots : b # ret.slot /\ Borrowed(b)

\* C2: the refcounts count exactly the handles out (slot by slot, hence in
\* sum), and no slot with refcount > 0 holds a payload never initialized.
RefcountsCountHandles ==
  /\ \A s \in Slots : RefCount(entries[s]) = held[s]
  /\ Sum([s \in Slots |-> RefCount(entries[s])], CAPACITY) = HeldCount
  /\ \A s \in Slots : Borrowed(s) => entries[s].data # NoData

\* a slot handed out twice (lookup or alloc, then dup) next to a free one
C2Witness ==
  /\ ret.op = "dup"
  /\ held[ret.slot] = 2
  /\ \E b \in Slots : held[b] = 0 /\ entries[b].data # NoData

\* C3: find_or_alloc returns a handle to the borrowed slot that matches the
\* key whenever there is one, also when a free slot comes earlier in the scan;
\* it initializes a free slot, calling init once, only when no borrowed slot
\* matches; it returns empty only when no slot matches and none is free.
FindOrAllocPrefersMatch ==
  [][(ret'.op = "find_or_alloc" /\ flavor = "array") =>
       LET m == {s \in Slots : Borrowed(s) /\ entries[s].data = ret'.key}
           f == {s \in Slots : entries[s].refcnt = 0}
       IN /\ m # {} => /\ ret'.slot \in m
                       /\ ret'.init = 0
                       /\ entries' = [entries EXCEPT ![ret'.slot].refcnt = @ + 1]
          /\ (m = {} /\ f # {}) => /\ ret'.slot \in f
                                   /\ ret'.init = 1
                                   /\ entries' = [entries EXCEPT ![ret'.slot] =
                                                    [refcnt |-> 1, data |-> ret'.key]]
          /\ (m = {} /\ f = {}) => /\ ret'.slot = 0
                                   /\ ret'.init = 0
                                   /\ entries' = entries]_vars

\* a lookup returned the matching borrowed slot although a free slot precedes it
C3Witness ==
  /\ flavor = "array"
  /\ ret.op = "find_or_alloc" /\ ret.init = 0 /\ ret.slot # 0
  /\ \E s \in Slots : s < ret.slot /\ entries[s].refcnt = 0

\* C4: dealloc calls finalize exactly when it drops the last handle of the
\* slot, once, and the slot is free when it returns; otherwise it lowers the
\* refcount by one and does not call finalize.
DeallocFinalizesLastHandleOnly ==
  ret.op = "dealloc" =>
    /\ ret.pre >= 1
    /\ ret.pre = 1 => (ret.fin = 1 /\ entries[ret.slot].refcnt = 0)
    /\ ret.pre > 1 => (ret.fin = 0 /\ entries[ret.slot].refcnt = ret.pre - 1)

\* the last handle of a slot was dropped while another slot is still borrowed
C4Witness ==
  /\ ret.op = "dealloc" /\ ret.pre = 1 /\ ret.fin = 1
  /\ entries[ret.slot].refcnt = 0
  /\ \E b \in Slots : held[b] = 2

MruReusesLeastRecentlyUsed ==
  [][(ret'.op = "find_or_alloc" /\ ret'.init = 1 /\ flavor = "mru") =>
       \A e \in Slots :
         (e # ret'.slot /\ entries[e].refcnt = 0) =>
           \E i, j \in 1..Len(recency) :
             recency[i] = e /\ recency[j] = ret'.slot /\ i < j]_vars

(***************************************************************************)
(* Claims about the process system.                                        *)
(***************************************************************************)
Lifecycle ==
  {<<"UNUSED", "USED">>, <<"USED", "RUNNABLE">>,
   <<"RUNNABLE", "RUNNING">>, <<"RUNNING", "RUNNABLE">>,
   <<"RUNNING", "SLEEPING">>, <<"SLEEPING", "RUNNABLE">>,
   <<"RUNNING", "ZOMBIE">>, <<"ZOMBIE", "UNUSED">>}

\* C7: under any interleaving of fork, exit, wait, kill, sleep, wakeup and the
\* schedulers, every change of the state of a process slot is one of UNUSED to
\* USED, USED to RUNNABLE, RUNNABLE to RUNNING, RUNNING to RUNNABLE, RUNNING to
\* SLEEPING, SLEEPING to RUNNABLE, RUNNING to ZOMBIE, ZOMBIE to UNUSED.
OnlyLifecycleTransitions ==
  [][\A p \in Procs :
       procs'[p].state # procs[p].state =>
         <<procs[p].state, procs'[p].state>> \in Lifecycle]_vars

\* a slot lives its second life, running, while another process sleeps and a
\* third is killed
C7Witness ==
  \E p \in Procs :
    /\ procs[p].state = "RUNNING" /\ procs[p].pid > NPROC
    /\ \E q \in Procs : procs[q].state = "SLEEPING"
    /\ \E q \in Procs : procs[q].state = "RUNNABLE" /\ procs[q].killed

\* C8: in every reachable state, every process that is SLEEPING has a non-null
\* wait channel recorded.
SleepingHasWaitChannel ==
  \A p \in Procs :
    procs[p].state = "SLEEPING" => procs[p].waitchannel # NullChan

\* one process sleeps in wait while another, woken from its sleep, has not run
\* yet
C8Witness ==
  \E p \in Procs : \E q \in Procs :
    /\ procs[p].state = "SLEEPING"
    /\ q # p /\ pc[q] = "wait_sleep" /\ procs[q].state = "RUNNABLE"

\* C9: no kernel thread takes the wait-lock while it holds an info lock; fork
\* has released the guard of the child when it takes the wait-lock and holds
\* it to record the parent, and takes the guard again only with the wait-lock
\* released.
WaitLockBeforeInfoLock ==
  [][\A t \in Procs :
       /\ (wait_lock' = t /\ wait_lock # t) => \A p \in Procs : plock[p] # t
       /\ pc'[t] \in {"fork_guard", "fork_parent"} =>
            \A p \in Procs : plock'[p] # t
       /\ pc'[t] = "fork_relock" => wait_lock' # t]_vars

\* fork holds the wait-lock to record the parent of a child that is USED
C9Witness ==
  \E t \in Procs :
    /\ wait_lock = t /\ pc[t] = "fork_parent"
    /\ procs[local[t].np].state = "USED"
    /\ plock[local[t].np] = 0

\* C10: whenever wait returns a pid, the pid was that of a ZOMBIE child of the
\* caller, the status the child passed to exit is the word copied out to the
\* address the caller gave (when it gave one), the slot of the child is UNUSED
\* afterwards, and no earlier wait has returned that pid.
WaitReapsZombieChild ==
  [][(last'.op = "wait" /\ last'.ret > 0 /\ pc[last'.proc] = "wait") =>
       /\ procs[last'.slot].state = "ZOMBIE"
       /\ procs[last'.slot].pid = last'.ret
       /\ procs[last'.slot].parent = last'.proc
       /\ local[last'.proc].addr # NullAddr =>
            last'.out = local[last'.slot].status
       /\ procs'[last'.slot].state = "UNUSED"
       /\ last'.ret \notin reaped]_vars

\* wait returned to a process other than the initial one the pid of its
\* child and the status copied out, after an earlier wait reaped another pid
C10Witness ==
  /\ last.op = "wait" /\ last.ret > 0
  /\ last.proc # initial_proc
  /\ last.out = MaxStatus
  /\ procs[last.slot].state = "UNUSED"
  /\ Cardinality(reaped) >= 2

(***************************************************************************)
(* The process system under a fair scheduler.  Every scheduler loop goes   *)
(* round the table, so a process that is RUNNABLE again and again is run;  *)
(* a kernel thread that runs goes on, and gets a lock that is free again   *)
(* and again.  The programs: every process but the initial one exits in    *)
(* the end, and the initial process calls wait with a mapped address for   *)
(* ever (the loop of init).                                                *)
(***************************************************************************)
KernelStep(i) ==
  \/ fork_unlock(i)
  \/ fork_wait_guard(i)
  \/ fork_parent(i)
  \/ fork(i)
  \/ exit_current(i)
  \/ wait(i)
  \/ wait_err(i)
  \/ wait_sleep(i)
  \/ wait_reacquire(i)

ProcFairness ==
  /\ WF_vars(user_proc_init_alloc \/ user_proc_init)
  /\ \A p \in Procs : SF_vars(\E c \in Cpus : scheduler(c, p))
  /\ \A i \in Procs : SF_vars(KernelStep(i))
  /\ \A i \in Procs : SF_vars(\E status \in Statuses : exit_wait_guard(i, status))
  /\ \A i \in Procs : SF_vars(i = initial_proc /\ wait_guard(i, UserAddr))

ProcFairNext ==
  \/ user_proc_init_alloc
  \/ user_proc_init
  \/ \E c \in Cpus : \E p \in Procs : scheduler(c, p)
  \/ \E i \in Procs : fork_alloc(i)
  \/ \E i \in Procs : KernelStep(i)
  \/ \E i \in Procs : \E status \in Statuses : exit_wait_guard(i, status)
  \/ \E i \in Procs : wait_guard(i, UserAddr)
  \/ \E i \in Procs : proc_yield(i)

SpecProcFair ==
  ProcInit /\ [][ProcFairNext]_vars /\ ProcFairness

\* C11: if a child exits while its parent sleeps in wait, or the parent calls
\* wait afterwards, the wait of the parent returns in the end with the pid of
\* a child (the wakeup of exit is not lost); in the end every process ever
\* created, but the initial one, has been reaped, and all slots but that of
\* the initial process are UNUSED for ever.
ExitedChildIsReaped ==
  /\ \A p \in Procs :
       (/\ pc[p] \in {"wait", "wait_sleep"}
        /\ local[p].addr # BadAddr
        /\ \E np \in Procs : procs[np].parent = p /\ procs[np].state = "ZOMBIE")
         ~> (last.op = "wait" /\ last.proc = p /\ last.ret > 0)
  /\ <>[](/\ initial_proc # NullProc
          /\ \A p \in Procs : p # initial_proc => procs[p].state = "UNUSED"
          /\ \A pid \in 1..(nextpid - 1) :
               pid = procs[initial_proc].pid \/ pid \in reaped)

\* a child has exited while its parent slept in wait: the parent, woken by
\* the exit, has not run yet
C11Witness ==
  \E p \in Procs : \E np \in Procs :
    /\ procs[p].state = "RUNNABLE" /\ pc[p] = "wait_sleep"
    /\ procs[np].parent = p /\ procs[np].state = "ZOMBIE"

\* C12: a scan of wait that finds the caller without children, or killed with
\* no ZOMBIE child, ends the call with an error and the caller does not
\* sleep; the caller goes to sleep in wait only with at least one child, none
\* of them ZOMBIE, and not killed, and then it sleeps on its own
\* child_waitchannel and the wait-lock, which it held, is released.
WaitErrsOrSleeps ==
  [][\A i \in Procs :
       (pc[i] = "wait" /\ pc'[i] # "wait") =>
         LET s == WaitScan(procs, i)
         IN /\ (s.kids = {} \/ (procs[i].killed /\ s.zombie = 0)) =>
                 /\ last' = Last("wait", i, -1, 0, Unwritten)
                 /\ pc'[i] = "user"
                 /\ procs'[i] = procs[i]
                 /\ cpus' = cpus
            /\ procs'[i].state = "SLEEPING" =>
                 /\ s.kids # {}
                 /\ s.zombie = 0
                 /\ ~procs[i].killed
                 /\ procs'[i].waitchannel = child_waitchannel(i)
                 /\ wait_lock = i
                 /\ wait_lock' = 0]_vars

\* a killed caller with children, none of them ZOMBIE, got an error from
\* wait while another process sleeps in wait
C12Witness ==
  /\ last.op = "wait" /\ last.ret = -1
  /\ procs[last.proc].killed
  /\ \E np \in Procs : procs[np].parent = last.proc
  /\ \A np \in Procs : procs[np].parent = last.proc => procs[np].state # "ZOMBIE"
  /\ \E p \in Procs : pc[p] = "wait_sleep" /\ procs[p].state = "SLEEPING"

\* C13: kill(pid) succeeds exactly when a slot that is not UNUSED has that
\* pid; it then sets the killed flag of that process and makes it RUNNABLE if
\* it is SLEEPING, and leaves every other slot as it was; when no process has
\* that pid it returns an error and changes no slot.
KillHitsLiveProcessOnly ==
  [][\A i \in Procs : \A pid \in 0..MaxPid :
       kill(i, pid) =>
         LET live == {p \in Procs : procs[p].pid = pid /\ procs[p].state # "UNUSED"}
         IN IF live # {}
            THEN /\ last'.ret = 0
                 /\ \E p \in live :
                      /\ procs'[p].killed
                      /\ procs'[p].state = IF procs[p].state = "SLEEPING"
                                           THEN "RUNNABLE" ELSE procs[p].state
                      /\ \A q \in Procs \ {p} : procs'[q] = procs[q]
            ELSE /\ last'.ret = -1
                 /\ procs' = procs]_vars

\* C14: the step of exit that makes a process ZOMBIE hands every process
\* whose parent it was to the initial process, and wakes the initial process
\* if it sleeps on its child_waitchannel; so whenever the wait-lock is free no
\* process has a ZOMBIE or UNUSED slot for its parent.
ParentIsNeverDead ==
  /\ [](wait_lock = 0 =>
          \A p \in Procs :
            procs[p].parent # NullProc =>
              procs[procs[p].parent].state \notin {"ZOMBIE", "UNUSED"})
  /\ [][\A i \in Procs :
          (procs[i].state # "ZOMBIE" /\ procs'[i].state = "ZOMBIE") =>
            /\ \A p \in Procs :
                 procs[p].parent = i => procs'[p].parent = initial_proc
            /\ ((\E p \in Procs : procs[p].parent = i)
                /\ procs[initial_proc].state = "SLEEPING"
                /\ procs[initial_proc].waitchannel = child_waitchannel(initial_proc))
                 => procs'[initial_proc].state = "RUNNABLE"]_vars

\* a process with a child has exited: the child now has the initial process
\* for its parent, and the wait-lock is free
C14Witness ==
  /\ last.op = "exit" /\ last.slot # 0
  /\ wait_lock = 0
  /\ procs[last.proc].state = "ZOMBIE"
  /\ procs[last.slot].state # "UNUSED"
  /\ procs[last.slot].parent = initial_proc

\* C15: a process runs on at most one CPU at a time: no two CPUs have the
\* same current process, the current process of a CPU is RUNNING, every
\* RUNNING process is the current process of a CPU, and a CPU takes a
\* process only when its own pointer is null, the lock of the process is free
\* and the process is RUNNABLE, and the process is RUNNING afterwards.
OneCpuPerProcess ==
  /\ [](/\ \A c1 \in Cpus : \A c2 \in Cpus :
             (cpus[c1] # NullProc /\ cpus[c1] = cpus[c2]) => c1 = c2
        /\ \A c \in Cpus :
             cpus[c] # NullProc => procs[cpus[c]].state = "RUNNING"
        /\ \A p \in Procs :
             procs[p].state = "RUNNING" => \E c \in Cpus : cpus[c] = p)
  /\ [][\A c \in Cpus :
          (cpus'[c] # cpus[c] /\ cpus'[c] # NullProc) =>
            /\ cpus[c] = NullProc
            /\ plock[cpus'[c]] = 0
            /\ procs[cpus'[c]].state = "RUNNABLE"
            /\ procs'[cpus'[c]].state = "RUNNING"]_vars

\* both CPUs run a process while a third process is RUNNABLE
C15Witness ==
  /\ \A c \in Cpus : cpus[c] # NullProc
  /\ \E p \in Procs : procs[p].state = "RUNNABLE" /\ plock[p] = 0

(***************************************************************************)
(* Claims about pipes.                                                     *)
(***************************************************************************)
IsPrefix(s, t) ==
  Len(s) <= Len(t) /\ SubSeq(t, 1, Len(s)) = s

\* the bytes of the stream that come from the buffer of one call, in order
FromBuffer(stream, buf) ==
  SelectSeq(stream, LAMBDA x : \E k \in 1..Len(buf) : buf[k] = x)

\* C16: as long as no read was given an unmapped address, the bytes returned
\* by all reads, in order, are a prefix of the bytes accepted by all writes,
\* in order; and a write that returns n has put exactly the first n bytes of
\* its buffer into the stream, in order.
PipeIsFifo ==
  /\ ~dropped => IsPrefix(delivered, accepted)
  /\ (pret.op = "write" /\ pret.ret >= 0) =>
       FromBuffer(accepted, pret.bytes) = SubSeq(pret.bytes, 1, pret.ret)

\* a write longer than the ring has returned after a sleep, another write has
\* put bytes in between, both counters have wrapped and every byte written
\* before the wrap was read
C16Witness ==
  /\ ~dropped
  /\ pret.op = "write" /\ pret.ret > PIPESIZE
  /\ \E k \in 1..(Len(accepted) - 1) :
       accepted[k] > accepted[k + 1]
  /\ Len(accepted) > CounterModulus
  /\ Len(delivered) >= CounterModulus

\* C17: a read issued when the write end is closed and the ring is empty
\* (nread = nwrite) returns 0 in the same pass: the caller does not sleep, no
\* error is returned and the pipe is left as it was.
ReadAtEndOfStreamReturnsZero ==
  [][\A i \in PipeTasks : \A valid \in Valids : \A n \in 0..MaxN :
       (Pipe_read(i, valid, n) /\ ~pipe.writeopen /\ pipe.nread = pipe.nwrite) =>
         /\ pret' = PipeRet("read", i, 0, <<>>)
         /\ tasks'[i] = NoCall
         /\ pipe' = pipe]_vars

\* bytes went through the pipe, the write end was closed, and a read of the
\* drained ring has returned 0
C17Witness ==
  /\ pret = PipeRet("read", pret.task, 0, <<>>)
  /\ pret.task \in PipeTasks
  /\ ~pipe.writeopen
  /\ pipe.nread = pipe.nwrite
  /\ Len(delivered) > 0

\* C18: a write of more bytes than the ring holds whose caller is not killed,
\* made when the read end is closed or woken after the read end was closed,
\* returns the count of bytes it has written so far, not an error.
WriteWithoutReaderReturnsCount ==
  [][\A i \in PipeTasks :
       /\ \A valid \in Valids : \A n \in (PIPESIZE + 1)..MaxN :
            (Pipe_write(i, valid, n) /\ ~pipe.readopen) =>
              (pret'.op = "write" /\ pret'.task = i /\ pret'.ret = 0)
       /\ (/\ Pipe_write_woken(i)
           /\ tasks[i].n > PIPESIZE
           /\ ~pipe.readopen
           /\ ~pkilled[i]) =>
            pret' = PipeRet("write", i, tasks[i].written, tasks[i].buf)]_vars

(***************************************************************************)
(* Claims about the log.                                                   *)
(***************************************************************************)
\* C19: no step increments outstanding while a commit is in progress, nor
\* when outstanding * MAXOPBLOCKS + MAXOPBLOCKS exceeds LOGSIZE; in every
\* state committing implies outstanding = 0, and outstanding * MAXOPBLOCKS
\* is at most LOGSIZE.
BeginOpAdmitsWithinCapacity ==
  /\ [][log'.outstanding > log.outstanding =>
          /\ log'.outstanding = log.outstanding + 1
          /\ ~log.committing
          /\ log.outstanding * MAXOPBLOCKS + MAXOPBLOCKS <= LOGSIZE]_vars
  /\ [](log.committing => log.outstanding = 0)
  /\ [](log.outstanding * MAXOPBLOCKS <= LOGSIZE)

\* the open transactions take the whole log, and a begin_op sleeps
C19Witness ==
  /\ log.outstanding * MAXOPBLOCKS = LOGSIZE
  /\ \E i \in LogTasks : txs[i].pc = "begin_op" /\ txs[i].asleep

OpenBlocks ==
  UNION {txs[i].wrote : i \in {j \in LogTasks : txs[j].pc = "tx"}}

AllOrNothingAfterRecovery ==
  [][recover_from_log =>
       /\ crashed \in {"after_head", "after_clear"} => disk'.home = snap.post
       /\ crashed \in {"idle", "before_head"} => disk'.home = snap.pre]_vars

\* recovery has replayed a commit of two blocks that changes the disk, after
\* a crash that came between the header with N > 0 and its clearing
C21Witness ==
  /\ logpc.phase = "recover"
  /\ crashed = "after_head"
  /\ Len(disk.head) >= 2
  /\ logpc.k > Len(disk.head)
  /\ \A b \in Logged([bufs |-> disk.head]) : snap.pre[b] # snap.post[b]
  /\ disk.home = snap.post

\* C22, as stated: after recovery the home blocks hold every logged block if
\* the crash came at any point of the commit before the header was rewritten
\* with N = 0, and are as before the commit if it came after that rewrite.
InstalledUnlessCrashAfterClear ==
  [][recover_from_log =>
       /\ crashed \in {"before_head", "after_head"} => disk'.home = snap.post
       /\ crashed = "after_clear" => disk'.home = snap.pre]_vars

\* what recovery makes of a disk: the blocks the header names are installed
RECURSIVE Replayed(_, _)
Replayed(d, k) ==
  IF k > Len(d.head) THEN d.home
  ELSE Replayed(install_trans(d, k), k + 1)

\* C22, amended: at every point of a commit the disk is one that recovery
\* turns into the blocks as they were before the commit while the header
\* with N > 0 is not written, and into the blocks with every logged block
\* installed from then on; once the header is rewritten with N = 0 the home
\* blocks themselves hold every logged block.  The same holds at every point
\* of a recovery, for the commit that the crash interrupted.
DiskRecoversToOneSide ==
  LET point == IF Up THEN CrashPoint ELSE crashed
  IN /\ point \in {"idle", "before_head"} => Replayed(disk, 1) = snap.pre
     /\ point \in {"after_head", "after_clear"} => Replayed(disk, 1) = snap.post
     /\ Up /\ point = "after_clear" => disk.head = <<>> /\ disk.home = snap.post

\* the header is rewritten with N = 0 and the commit changed two blocks
C22Witness ==
  /\ Up
  /\ CrashPoint = "after_clear"
  /\ Len(log.bufs) >= 2
  /\ \A b \in Logged(log) : snap.pre[b] # snap.post[b]

\* C23: once the end_op that brought outstanding to 0 has returned, and
\* until the next commit starts, the header on the disk records N = 0.
HeaderClearedWhenEndOpReturns ==
  logpc.phase = "done" => Len(disk.head) = 0

\* an end_op has returned from a commit that changed the disk
C23Witness ==
  /\ logpc.phase = "done"
  /\ crashed = "no"
  /\ snap.post = disk.home
  /\ \E b \in Blocks : disk.home[b] # 0 /\ disk.slots[1] # 0

\* C24: every buffer whose block number is in the list of the log has a
\* refcnt of at least 1, so that the buffer cache does not reuse it.
LoggedBuffersArePinned ==
  \A k \in 1..Len(log.bufs) : bcache[log.bufs[k]].refcnt >= 1

\* two buffers are still pinned at the end of a commit
C24Witness ==
  /\ log.committing
  /\ logpc.phase = "unpin"
  /\ Len(log.bufs) >= 2
  /\ \A b \in Logged(log) : bcache[b].refcnt = 1

(***************************************************************************)
(* Claims about the locks.                                                 *)
(***************************************************************************)

\* the CPUs, their spinlocks and their interrupts
SpecIntr ==
  ProcInit /\ [][IntrNext]_vars

\* C25: on every CPU the depth counter is never negative and is 0 in user
\* mode, interrupts are disabled while the counter is above 0 and while the
\* CPU holds or waits for a spinlock; the counter moves by one at a time, a
\* push leaves interrupts disabled, and interrupts become enabled only in a
\* step that leaves the counter at 0; outside interrupt handlers they are
\* enabled whenever the counter is 0.
InterruptsOffWhileLocked ==
  /\ [](\A c \in Harts :
          /\ hart[c].noff >= 0
          /\ hart[c].mode = "user" => hart[c].noff = 0
          /\ hart[c].noff > 0 => ~hart[c].intr
          /\ hart[c].noff = 0 /\ hart[c].mode # "handler" => hart[c].intr
          /\ hart[c].noff =
               Cardinality({l \in Spinlocks : holding(l, c)})
                 + (IF hart[c].wants # 0 THEN 1 ELSE 0)
          /\ (\E l \in Spinlocks : holding(l, c)) => ~hart[c].intr)
  /\ [][\A c \in Harts :
          /\ hart'[c].noff - hart[c].noff \in {-1, 0, 1}
          /\ hart'[c].noff > hart[c].noff => ~hart'[c].intr
          /\ ~hart[c].intr /\ hart'[c].intr => hart'[c].noff = 0]_vars

\* a CPU in a system call holds two spinlocks: interrupts were enabled
\* before the first push and are disabled now
C25Witness ==
  \E c \in Harts :
    /\ hart[c].mode = "kernel"
    /\ hart[c].noff = 2
    /\ hart[c].intena
    /\ ~hart[c].intr
    /\ \A l \in Spinlocks : holding(l, c)

\* tasks that lock and unlock the sleep locks of buffers
SpecSleep ==
  ProcInit /\ [][SleepNext]_vars

\* C26: at most one task is inside the critical section of a sleep lock, and
\* it is the holder the lock records; a task that finds the lock held is
\* asleep on the channel of that lock after its step, and a task enters only
\* in a step that starts with the lock free.
OneHolderPerSleeplock ==
  /\ [](\A l \in SleepLocks :
          LET inside == {i \in SleepTasks : sleepers[i].pc = "in" /\ sleepers[i].lk = l}
          IN /\ Cardinality(inside) <= 1
             /\ sleeplocks[l].locked <=> inside # {}
             /\ \A i \in inside : sleeplocks[l].pid = i)
  /\ [][\A i \in SleepTasks : \A l \in SleepLocks :
          /\ (sleepers[i].pc # "in" /\ sleepers'[i] = [pc |-> "in", lk |-> l])
               => ~sleeplocks[l].locked
          /\ (Sleeplock_acquire(i, l) /\ sleeplocks[l].locked)
               => sleepers'[i] = [pc |-> "asleep", lk |-> l]]_vars

\* one task holds a sleep lock, a second sleeps on its channel, a third was
\* woken by an earlier release and has not run yet
C26Witness ==
  \E l \in SleepLocks : \E i, j, k \in SleepTasks :
    /\ sleepers[i] = [pc |-> "in", lk |-> l]
    /\ sleepers[j] = [pc |-> "asleep", lk |-> l]
    /\ sleepers[k] = [pc |-> "woken", lk |-> l]

\* tasks that take guards and ask cells for references
SpecRemote ==
  ProcInit /\ [][RemoteNext]_vars

\* C27: every reference to the data of a cell was got with a guard of the
\* lock the cell was created with, and a call that presents the guard of
\* another lock adds no reference.
GuardOfTheSameLockOnly ==
  /\ [](\A r \in cellrefs : r.guard = r.lock)
  /\ [][\A i \in RemoteTasks : \A l, g \in RawLocks :
          (l # g /\ (\/ RemoteLock_get_mut_unchecked(i, l, g)
                     \/ LockProtected_get_pin_mut(i, l, g)))
            => cellrefs' = cellrefs]_vars

(***************************************************************************)
(* Claims about the file system.                                           *)
(***************************************************************************)

\* create, link and unlink on the entries of one directory
SpecInode ==
  ProcInit /\ [][InodeNext]_vars

\* C28: when an unlink of name b succeeds right after a link of an inode to
\* the name b has succeeded, the nlink of that inode is what it was before
\* the link, and the directory holds the name b no more.
LinkThenUnlinkRestoresNlink ==
  [][\A b \in Names :
       (/\ fsret.op = "link" /\ fsret.ok /\ fsret.name = b
        /\ Ufs_unlink(b)
        /\ fsret'.ok)
         => /\ itable'[fsret.inum].nlink = fsret.before
            /\ fsret'.inum = fsret.inum
            /\ dirlookup(rootdir', b) = 0]_vars

\* a link to a file that had two names already was followed by the unlink of
\* the new name
C28Witness ==
  /\ fsret.op = "unlink"
  /\ fsret.ok
  /\ fsret.before = 3
  /\ itable[fsret.inum].typ = "File"
  /\ itable[fsret.inum].nlink = 2
  /\ Cardinality({n \in Names : dirlookup(rootdir, n) = fsret.inum}) = 2

\* allocation, use and release of disk blocks
SpecBalloc ==
  ProcInit /\ [][BallocNext]_vars

\* C29: a bfree of the block that the balloc before it returned leaves the
\* bitmap as it was before that balloc, and the block a balloc returns holds
\* zeros when the balloc returns.
BallocBfreeRestoresBitmap ==
  /\ [](bret.op = "balloc" => blockdata[bret.b] = 0)
  /\ [][(bret.op = "balloc" /\ UfsTx_bfree(bret.b))
          => bret'.op = "bfree" /\ bmap' = bret.before]_vars
  /\ [][UfsTx_balloc /\ bret'.op = "balloc"
          => /\ Masked(bmap[bret'.b \div BPB], bret'.b % BPB) = 0
             /\ bmap' = BmapOf({b \in FsBlocks : Masked(bmap[b \div BPB], b % BPB) # 0}
                                 \cup {bret'.b})]_vars

\* a block in the second bitmap block was written, freed with its data, and
\* handed out again by the next balloc
C29Witness ==
  /\ bret.op = "balloc"
  /\ bret.b >= BPB
  /\ bret.before # BmapOf(0..(bret.b - 1))
  /\ blockdata[bret.b] = 0
  /\ \E b \in FsBlocks : blockdata[b] # 0

SpecCell ==
  ProcInit /\ [][CellNext]_vars

\* the Ref and the RefMut handles of the RcCell that the tasks hold
RcRefs ==
  Sum([i \in CellTasks |-> rctasks[i].refs], NCellTasks)

RcMuts ==
  Sum([i \in CellTasks |-> rctasks[i].muts], NCellTasks)

\* C30: the counter of a ref-cell is the number of Ref handles that exist, or
\* the sentinel while exactly one RefMut and no Ref exists; a RefMut is
\* handed out only from counter 0, or in exchange for a Ref when the counter
\* is 1; turning a RefMut into a Ref leaves the counter at 1.  For the RcCell
\* this holds at every step of tasks that load and compare_exchange the
\* counter at the same time.
CounterIsTheBorrows ==
  /\ [](/\ \/ RcMuts = 0 /\ rcell = RcRefs
           \/ RcMuts = 1 /\ RcRefs = 0 /\ rcell = BORROWED_MUT
        /\ \/ sheld.muts = 0 /\ scell.refcnt = sheld.refs
           \/ sheld.muts = 1 /\ sheld.refs = 0 /\ scell.refcnt = BORROWED_MUT)
  /\ [][/\ \A i \in CellTasks :
             rctasks'[i].muts > rctasks[i].muts =>
               /\ rcell' = BORROWED_MUT
               /\ \/ rcell = 0 /\ rctasks'[i].refs = rctasks[i].refs
                  \/ rcell = 1 /\ rctasks'[i].refs = rctasks[i].refs - 1
        /\ sheld'.muts > sheld.muts =>
               /\ scell'.refcnt = BORROWED_MUT
               /\ \/ scell.refcnt = 0 /\ sheld'.refs = sheld.refs
                  \/ scell.refcnt = 1 /\ sheld'.refs = sheld.refs - 1
        /\ (sheld'.muts < sheld.muts /\ sheld'.refs > sheld.refs) =>
               scell'.refcnt = 1]_vars

\* one task holds the RefMut of the RcCell that it got while another task,
\* which had loaded the counter, failed its compare_exchange; and the
\* StaticRefCell is mutably borrowed
C30Witness ==
  /\ \E i, j \in CellTasks :
       /\ i # j
       /\ rctasks[i].muts = 1
       /\ rctasks[j].pc = "continue"
       /\ rctasks[j].r = 1
  /\ sheld.muts = 1
  /\ scell.refcnt = BORROWED_MUT

\* C31: fork hands the pid of the child to the parent and 0 (register a0 of
\* its trap frame) to the child; the parent field of the child is written
\* while the forking process holds the wait-lock, before the child leaves
\* USED for RUNNABLE; so no process other than the initial one is RUNNABLE,
\* RUNNING, SLEEPING or ZOMBIE without a parent, and no scheduler takes one.
ForkRecordsParentBeforeRunnable ==
  /\ [](\A p \in Procs :
          /\ (p # initial_proc
              /\ procs[p].state \in {"RUNNABLE", "RUNNING", "SLEEPING", "ZOMBIE"})
               => procs[p].parent # NullProc
          /\ pc[p] = "forkret" => local[p].a0 = 0)
  /\ [][/\ (last'.op = "fork" /\ last'.ret # -1) =>
             /\ last'.ret = procs'[last'.slot].pid
             /\ procs[last'.slot].state = "USED"
             /\ procs[last'.slot].parent = last'.proc
             /\ procs'[last'.slot].state = "RUNNABLE"
             /\ procs'[last'.slot].parent = last'.proc
             /\ local'[last'.slot].a0 = 0
        /\ \A p \in Procs :
             (procs[p].parent = NullProc /\ procs'[p].parent # NullProc) =>
               /\ wait_lock = procs'[p].parent
               /\ local[wait_lock].np = p
               /\ procs[p].state = "USED"
        /\ \A c \in Cpus : \A p \in Procs :
             scheduler(c, p) => (p = initial_proc \/ procs[p].parent # NullProc)]_vars

\* fork has returned the pid of a child that is RUNNABLE, has not run yet,
\* has the caller for its parent and 0 in a0
C31Witness ==
  /\ last.op = "fork"
  /\ last.ret > 0
  /\ procs[last.slot].pid = last.ret
  /\ procs[last.slot].state = "RUNNABLE"
  /\ procs[last.slot].parent = last.proc
  /\ pc[last.slot] = "forkret"
  /\ local[last.slot].a0 = 0

\* the channels the exit of process i wakes: the child_waitchannel of its
\* parent, and that of the initial process when i leaves children to it
ExitWakes(i) ==
  {child_waitchannel(procs[i].parent)}
    \cup (IF \E pp \in Procs : procs[pp].parent = i
          THEN {child_waitchannel(initial_proc)}
          ELSE {})

\* C32: a wakeup on a channel makes RUNNABLE exactly the processes, other
\* than the caller, that are SLEEPING with that channel recorded; a process
\* in another state or sleeping on another channel keeps its state, its
\* channel and every other field the wakeup can reach.  The wakeups of the
\* process system are those of exit; no other step but kill ends a sleep.
WakeupWakesSleepersOfTheChannel ==
  /\ [][\A i \in Procs :
          exit_current(i) =>
            \A p \in Procs \ {i} :
              LET woken == /\ procs[p].state = "SLEEPING"
                           /\ procs[p].waitchannel \in ExitWakes(i)
                  np == IF procs[p].parent = i THEN initial_proc ELSE procs[p].parent
              IN procs'[p] = [procs[p] EXCEPT !.parent = np,
                                              !.state = IF woken THEN "RUNNABLE" ELSE @]]_vars
  /\ [][\A p \in Procs :
          (procs[p].state = "SLEEPING" /\ procs'[p].state # "SLEEPING") =>
            /\ procs'[p].state = "RUNNABLE"
            /\ \/ /\ last'.op = "exit"
                  /\ procs[p].waitchannel \in ExitWakes(last'.proc)
               \/ /\ last'.op = "kill"
                  /\ last'.slot = p]_vars

\* an exit has woken the parent, which slept on its own channel, and left
\* asleep a process that sleeps on another channel
C32Witness ==
  /\ last.op = "exit"
  /\ procs[last.proc].state = "ZOMBIE"
  /\ LET parent == procs[last.proc].parent
     IN /\ procs[parent].state = "RUNNABLE"
        /\ procs[parent].waitchannel = child_waitchannel(parent)
        /\ pc[parent] = "wait_sleep"
        /\ \E q \in Procs \ {parent} :
             /\ procs[q].state = "SLEEPING"
             /\ procs[q].waitchannel # child_waitchannel(parent)

(***************************************************************************)
(* The pipe under a fair scheduler: a task that was woken from its sleep   *)
(* in Pipe::read or Pipe::write is run again and goes on with its loop.    *)
(* Nothing is assumed about the calls the programs make.                   *)
(***************************************************************************)
PipeFairness ==
  \A i \in PipeTasks :
    /\ WF_vars(Pipe_read_woken(i))
    /\ WF_vars(Pipe_write_woken(i))

\* the calls of processes that are not killed
PipeFairNext ==
  \/ \E i \in PipeTasks : \E valid \in Valids : \E n \in 0..MaxN : Pipe_read(i, valid, n)
  \/ \E i \in PipeTasks : Pipe_read_woken(i)
  \/ \E i \in PipeTasks : \E valid \in Valids : \E n \in 0..MaxN : Pipe_write(i, valid, n)
  \/ \E i \in PipeTasks : Pipe_write_woken(i)
  \/ \E writable \in BOOLEAN : Pipe_close(writable)

SpecPipeFair ==
  ProcInit /\ [][PipeFairNext]_vars /\ PipeFairness

\* C33: a read that finds the pipe empty with the write end open, and a
\* write that finds it full with the read end open, put the caller to sleep
\* and return nothing; a task is asleep on the read channel only while the
\* pipe is empty and the write end open, and on the write channel only while
\* the pipe is full and the read end open (every write, read and close wakes
\* the other side in the step that changes the pipe); and a task in a call
\* whose wait is over goes on with its call in the end.
PipeSleepsAndIsWoken ==
  /\ [](\A i \in PipeTasks :
          /\ tasks[i].waitchannel = ReadChan =>
               (tasks[i].pc = "read" /\ pipe_empty(pipe))
          /\ tasks[i].waitchannel = WriteChan =>
               (tasks[i].pc = "write" /\ is_full(pipe) /\ pipe.readopen))
  /\ [][\A i \in PipeTasks :
          /\ ((\E valid \in Valids : \E n \in 0..MaxN : Pipe_read(i, valid, n))
              /\ pipe_empty(pipe)) =>
               /\ tasks'[i].pc = "read"
               /\ tasks'[i].waitchannel = ReadChan
               /\ pret'.op = "none"
          /\ ((\E valid \in Valids : \E n \in 1..MaxN : Pipe_write(i, valid, n))
              /\ is_full(pipe) /\ pipe.readopen) =>
               /\ tasks'[i].pc = "write"
               /\ tasks'[i].waitchannel = WriteChan
               /\ pret'.op = "none"]_vars
  /\ \A i \in PipeTasks :
       /\ (tasks[i].pc = "read" /\ ~pipe_empty(pipe))
            ~> (tasks[i].pc # "read" \/ pipe_empty(pipe))
       /\ (tasks[i].pc = "write" /\ ~(is_full(pipe) /\ pipe.readopen))
            ~> (tasks[i].pc # "write" \/ (is_full(pipe) /\ pipe.readopen))

\* a reader that slept on the empty pipe has been woken by a write and has
\* bytes to read, while a writer that slept on the full pipe is in its call
C33Witness ==
  \E i, j \in PipeTasks :
    /\ tasks[i].pc = "read"
    /\ tasks[i].waitchannel = NullChan
    /\ ~pkilled[i]
    /\ pipe.nread # pipe.nwrite
    /\ tasks[j].pc = "write"
    /\ ~pkilled[j]

(***************************************************************************)
(* The log under a fair scheduler: a woken begin_op takes its turn, an     *)
(* open transaction calls end_op in the end, a commit that has begun runs  *)
(* to its end.  When a process begins a transaction is up to its program.  *)
(***************************************************************************)
LogFairness ==
  \A i \in LogTasks :
    /\ WF_vars(begin_tx_woken(i))
    /\ WF_vars(UfsTx_end(i))
    /\ WF_vars(commit(i))

\* transactions that write the first block, if any
LogFairNext ==
  \/ \E i \in LogTasks : begin_tx(i)
  \/ \E i \in LogTasks : begin_tx_woken(i)
  \/ \E i \in LogTasks : UfsTx_write(i, 1, bcache[1].data)
  \/ \E i \in LogTasks : UfsTx_end(i)
  \/ \E i \in LogTasks : commit(i)

SpecLogFair ==
  ProcInit /\ [][LogFairNext]_vars /\ LogFairness

\* C34 as stated: a begin_op that waits is admitted in the end
BeginOpProceedsInTheEnd ==
  \A i \in LogTasks : (txs[i].pc = "begin_op") ~> (txs[i].pc = "tx")

\* C34, amended: every end_op wakes every waiter of the log, the one that
\* brings outstanding to 0 only with the commit done, the list empty and
\* committing cleared; a begin_op sleeps only while a transaction is open or
\* a commit runs; a begin_op that sleeps is woken in the end, and a begin_op
\* that waits is admitted or finds, again and again, the log taken by
\* begin_ops that came after it.
BeginOpIsWokenByEveryEndOp ==
  /\ [](\A i \in LogTasks :
          txs[i].asleep =>
            (txs[i].pc = "begin_op" /\ (log.committing \/ log.outstanding > 0)))
  /\ [][\A i \in LogTasks :
          /\ UfsTx_end(i) =>
               IF log.outstanding = 1
               THEN /\ log'.committing
                    /\ log'.outstanding = 0
                    /\ txs'[i].pc = "commit"
                    /\ \A j \in LogTasks : txs'[j].asleep = txs[j].asleep
               ELSE /\ log'.outstanding = log.outstanding - 1
                    /\ \A j \in LogTasks : ~txs'[j].asleep
          /\ commit(i) =>
               /\ log.committing /\ log.outstanding = 0
               /\ ~log'.committing
               /\ log'.bufs = <<>>
               /\ disk'.head = <<>>
               /\ \A j \in LogTasks : ~txs'[j].asleep]_vars
  /\ \A i \in LogTasks :
       /\ txs[i].asleep ~> ~txs[i].asleep
       /\ (txs[i].pc = "begin_op")
            ~> (txs[i].pc = "tx" \/ ~begin_op_waits(log))

\* a begin_op that slept because the log had no room has been woken by an
\* end_op that left a transaction open
C34Witness ==
  \E i \in LogTasks :
    /\ txs[i].pc = "begin_op"
    /\ ~txs[i].asleep
    /\ ~log.committing
    /\ log.outstanding > 0
    /\ ~begin_op_waits(log)

(***************************************************************************)
(* Claims about the references the log holds on buffers.                   *)
(***************************************************************************)
\* transactions next to processes that hold buffers of their own
SpecLogPin ==
  ProcInit /\ [][LogPinNext]_vars

\* the references of the log on block b: one while b is in the list
LogPins(lg, b) == IF b \in Logged(lg) THEN 1 ELSE 0

\* C35: a log_write of a block that is already in the list of the log leaves
\* the length of the list and the refcount of the buffer unchanged, and a
\* log_write of a new block appends exactly one entry and pins the buffer
\* exactly once; the commit unpins each logged block once, so that the
\* refcount of every buffer is the number of handles held outside the log
\* plus one while the block is in the list, and is what it was before the
\* transactions once the commit is done.
LogWritePinsOncePerBlock ==
  /\ [](/\ \A b \in Blocks : bcache[b].refcnt = bufrefs[b] + LogPins(log, b)
        /\ \A j, k \in 1..Len(log.bufs) : log.bufs[j] = log.bufs[k] => j = k)
  /\ [][\A i \in CrashTasks : \A b \in CrashBlocks :
          UfsTx_write(i, b, bcache[b].data) =>
            /\ b \in Logged(log) =>
                 /\ Len(log'.bufs) = Len(log.bufs)
                 /\ bcache'[b].refcnt = bcache[b].refcnt
            /\ b \notin Logged(log) =>
                 /\ log'.bufs = Append(log.bufs, b)
                 /\ bcache'[b].refcnt = bcache[b].refcnt + 1
            /\ \A o \in Blocks \ {b} : bcache'[o].refcnt = bcache[o].refcnt]_vars
  /\ [][\A i \in CrashTasks :
          commit(i) =>
            /\ \A b \in Blocks : bcache'[b].refcnt = bcache[b].refcnt - LogPins(log, b)
            /\ \A b \in Blocks : bcache'[b].refcnt = bufrefs[b]
            /\ log'.bufs = <<>>]_vars

\* the two open transactions both wrote one block, which is in the list once
\* next to a second block, while a process holds a buffer of it
C35Witness ==
  /\ \A i \in CrashTasks : txs[i].pc = "tx"
  /\ Len(log.bufs) = 2
  /\ \E b \in Logged(log) :
       /\ \A i \in CrashTasks : b \in txs[i].wrote
       /\ bufrefs[b] = 1
       /\ bcache[b].refcnt = 2

(***************************************************************************)
(* Claims about a released entry of the MruArena that is asked for again.  *)
(***************************************************************************)
\* C36: in the MruArena a find_or_alloc for a key whose entry is released
\* (refcnt 0) and still carries the key returns that entry with refcnt 1 and
\* without running init: the data of the entry is what it was, and no other
\* entry changes.
MruRehitKeepsTheEntry ==
  [][\A k \in Keys : \A s \in Slots :
       (/\ flavor = "mru"
        /\ find_or_alloc(k)
        /\ entries[s].data = k
        /\ entries[s].refcnt = 0)
       => /\ ret'.slot = s
          /\ ret'.init = 0
          /\ entries'[s].refcnt = 1
          /\ entries'[s].data = entries[s].data
          /\ \A o \in Slots \ {s} : entries'[o] = entries[o]]_vars

\* a find_or_alloc has just hit an entry nobody held, while another entry is
\* in use for another key
C36Witness ==
  /\ flavor = "mru"
  /\ ret.op = "find_or_alloc"
  /\ ret.init = 0
  /\ ret.slot # 0
  /\ entries[ret.slot].refcnt = 1
  /\ entries[ret.slot].data = ret.key
  /\ \E o \in Slots \ {ret.slot} : entries[o].refcnt > 0 /\ entries[o].data # ret.key

(***************************************************************************)
(* Claims about the order of the wait-lock and the info locks.             *)
(***************************************************************************)
\* the info lock of slot j is named j, the wait-lock by the index of no slot
WaitLockName == NullProc

\* the kernel threads: one per process, the boot thread, the scheduler loop
\* of each CPU
SchedThread(c) == BootThread + c
Threads == Procs \cup {BootThread} \cup {SchedThread(c) : c \in Cpus}

\* the thread that holds lock L, 0 if it is free
LockHolder(L) ==
  IF L = WaitLockName THEN wait_lock ELSE plock[L]

\* the locks thread t is about to take, from where it stands in its handler
LocksWanted(t) ==
  IF t \in Procs
  THEN CASE pc[t] = "fork_guard" -> {WaitLockName}
         [] pc[t] = "fork_relock" -> {local[t].np}
         [] pc[t] = "exit" -> Procs
         [] pc[t] = "wait" -> WaitScan(procs, t).kids \cup {t}
         [] pc[t] = "wait_sleep" /\ Running(t) -> {WaitLockName}
         [] OTHER -> {}
  ELSE IF \E c \in Cpus : t = SchedThread(c) /\ cpus[c] = NullProc
       THEN Procs
       ELSE {}

\* t cannot go on before u releases a lock; u = t is a thread that takes a
\* spinlock it holds
WaitsFor(t, u) ==
  \E L \in LocksWanted(t) : LockHolder(L) = u

\* C37: in no state is there a set of kernel threads each of which waits
\* for a lock (the wait-lock or an info lock) that a thread of the set holds,
\* be it another one or itself; and the thread that calls wakeup_pool, in
\* exit, holds the wait-lock and no info lock.
NoLockCycle ==
  /\ [](\A S \in SUBSET Threads :
          S # {} => \E t \in S : \A u \in S : ~WaitsFor(t, u))
  /\ [][\A i \in Procs :
          exit_current(i) => /\ wait_lock = i
                             /\ \A j \in Procs : plock[j] # i]_vars

\* a thread in exit holds the wait-lock and waits for the info lock of a
\* slot that a thread in fork holds
C37Witness ==
  \E t, u \in Procs :
    /\ pc[t] = "exit"
    /\ wait_lock = t
    /\ pc[u] = "fork_unlock"
    /\ plock[local[u].np] = u
    /\ WaitsFor(t, u)

(***************************************************************************)
(* Claims about the counters of the pipe.                                  *)
(***************************************************************************)
\* nwrite - nread in the arithmetic of the counters
Unread(inner) ==
  (inner.nwrite + CounterModulus - inner.nread) % CounterModulus

\* C38: the number of unread bytes, nwrite - nread modulo the range of the
\* counters, is between 0 and PIPESIZE in every state, and the unread bytes
\* lie in the ring in the order they were accepted, the k-th of them in slot
\* (nread + k) mod PIPESIZE, whether or not a counter has wrapped; so the
\* bytes delivered are a prefix of the bytes accepted.
PipeCountersWrapInOrder ==
  /\ Unread(pipe) \in 0..PIPESIZE
  /\ Unread(pipe) <= Len(accepted)
  /\ \A k \in 0..(Unread(pipe) - 1) :
       pipe.data[(pipe.nread + k) % PIPESIZE]
         = accepted[Len(accepted) - Unread(pipe) + k + 1]
  /\ ~dropped => /\ Len(delivered) = Len(accepted) - Unread(pipe)
                 /\ IsPrefix(delivered, accepted)

\* the ring is full while nwrite has wrapped and nread has not, and bytes
\* were delivered before
C38Witness ==
  /\ pipe.nwrite < pipe.nread
  /\ Unread(pipe) = PIPESIZE
  /\ ~dropped
  /\ Len(delivered) > 0

(***************************************************************************)
(* Claims about the close of a pipe and its page.                          *)
(***************************************************************************)
\* the pipe with the closes of its two ends and its page
SpecPipePage ==
  ProcInit /\ [][PipePageNext]_vars

FailedLinkKeepsNlink ==
  [][\A k \in Inums : \A name \in Names :
       Ufs_link(k, name) =>
         /\ itable[k].typ = "Dir" => ~fsret'.ok
         /\ ~dirlink_ok(rootdir, name) => ~fsret'.ok
         /\ ~fsret'.ok => /\ itable'[k].nlink = itable[k].nlink
                          /\ itable' = itable
                          /\ rootdir' = rootdir
         /\ fsret'.ok => /\ itable'[k].nlink = itable[k].nlink + 1
                         /\ dirlookup(rootdir', name) = k]_vars

\* a link to a file with two names has failed for a name that is free in the
\* directory: the directory of the path was not found
C40LookupWitness ==
  /\ fsret.op = "link"
  /\ ~fsret.ok
  /\ itable[fsret.inum].typ = "File"
  /\ dirlookup(rootdir, fsret.name) = 0
  /\ fsret.before = 2
  /\ itable[fsret.inum].nlink = 2

====
